---- MODULE Spec2Model ----
(***************************************************************************)
(* go-graphql-client: the query writer (query_writer.go, query arguments)  *)
(* and the streaming decoder (pkg/jsonutil) as a state machine.            *)
(*                                                                         *)
(* Go strings are sequences of one-character strings, so that the tag      *)
(* parser, the case folding and the writer's output are computed           *)
(* character by character.  Go values live in a heap of cells; a pointer   *)
(* is a cell number, a slice is a window (arr, off, len) on a cell, and a  *)
(* reflect.Value is a cell number with a path into the cell.               *)
(***************************************************************************)
EXTENDS Integers, Sequences, FiniteSets, TLC

(***************************************************************************)
(* Strings                                                                 *)
(***************************************************************************)
Range(s) == {s[i] : i \in DOMAIN s}

RECURSIVE Concat(_)
Concat(ss) == IF ss = <<>> THEN <<>> ELSE Head(ss) \o Concat(Tail(ss))

\* unicode.IsSpace, on the characters the model uses
IsSpace(c) == c \in {" ", "\t", "\n"}

RECURSIVE TrimLeft(_)
TrimLeft(s) == IF s # <<>> /\ IsSpace(Head(s)) THEN TrimLeft(Tail(s)) ELSE s

RECURSIVE TrimRight(_)
TrimRight(s) ==
    IF s # <<>> /\ IsSpace(s[Len(s)])
    THEN TrimRight(SubSeq(s, 1, Len(s) - 1))
    ELSE s

\* strings.TrimSpace
TrimSpace(s) == TrimRight(TrimLeft(s))

\* strings.HasPrefix
HasPrefix(s, p) == Len(s) >= Len(p) /\ SubSeq(s, 1, Len(p)) = p

\* strings.Index for a one-character needle: the first position (from 1), 0 when absent
Index(s, c) ==
    IF \E i \in DOMAIN s : s[i] = c
    THEN CHOOSE i \in DOMAIN s : s[i] = c /\ \A j \in 1..(i - 1) : s[j] # c
    ELSE 0

\* strings.LastIndex for a one-character needle: the last position (from 1), 0 when absent
LastIndex(s, c) ==
    IF \E i \in DOMAIN s : s[i] = c
    THEN CHOOSE i \in DOMAIN s : s[i] = c /\ \A j \in (i + 1)..Len(s) : s[j] # c
    ELSE 0

\* s[from:] with Go's 0-based offset `from`
From(s, from) == SubSeq(s, from + 1, Len(s))

UpperCase == <<"A","B","C","D","E","F","G","H","I","J","K","L","M",
               "N","O","P","Q","R","S","T","U","V","W","X","Y","Z">>
LowerCase == <<"a","b","c","d","e","f","g","h","i","j","k","l","m",
               "n","o","p","q","r","s","t","u","v","w","x","y","z">>

\* unicode.ToLower on ASCII
ToLower(c) ==
    IF \E i \in DOMAIN UpperCase : UpperCase[i] = c
    THEN LowerCase[CHOOSE i \in DOMAIN UpperCase : UpperCase[i] = c]
    ELSE c

\* strings.EqualFold on ASCII
EqualFold(a, b) ==
    /\ Len(a) = Len(b)
    /\ \A i \in DOMAIN a : ToLower(a[i]) = ToLower(b[i])

\* strings (byte-wise) ordering a < b
RECURSIVE StrLess(_, _)
CharRank(c) ==
    IF \E i \in DOMAIN LowerCase : LowerCase[i] = c
    THEN 100 + (CHOOSE i \in DOMAIN LowerCase : LowerCase[i] = c)
    ELSE IF \E i \in DOMAIN UpperCase : UpperCase[i] = c
    THEN 60 + (CHOOSE i \in DOMAIN UpperCase : UpperCase[i] = c)
    ELSE IF c = "_" THEN 95 ELSE 40
StrLess(a, b) ==
    IF b = <<>> THEN FALSE
    ELSE IF a = <<>> THEN TRUE
    ELSE IF Head(a) = Head(b) THEN StrLess(Tail(a), Tail(b))
    ELSE CharRank(Head(a)) < CharRank(Head(b))

(***************************************************************************)
(* internal/tagparser                                                      *)
(***************************************************************************)
ParsedTag(fieldName, arguments, alias, isFragment, typeName) ==
    [FieldName |-> fieldName, Arguments |-> arguments, Alias |-> alias,
     IsFragment |-> isFragment, TypeName |-> typeName]

\* a tag that is no fragment: "alias:name" or "name"
ParseFieldPart(fieldPart, arguments) ==
    IF Index(fieldPart, ":") # 0
    THEN ParsedTag(TrimSpace(SubSeq(fieldPart, Index(fieldPart, ":") + 1, Len(fieldPart))),
                   arguments,
                   TrimSpace(SubSeq(fieldPart, 1, Index(fieldPart, ":") - 1)),
                   FALSE, <<>>)
    ELSE ParsedTag(TrimSpace(fieldPart), arguments, <<>>, FALSE, <<>>)

\* the arguments stand between the first "(" and the last ")"
ParseField(tag, parenIdx, closeIdx) ==
    ParseFieldPart(IF parenIdx # 0 THEN TrimSpace(SubSeq(tag, 1, parenIdx - 1)) ELSE tag,
                   IF parenIdx # 0 /\ closeIdx > parenIdx
                   THEN SubSeq(tag, parenIdx + 1, closeIdx - 1)
                   ELSE <<>>)

\* what follows "...": "on TypeName", or nothing
ParseFragment(remaining) ==
    ParsedTag(<<>>, <<>>, <<>>, TRUE,
              IF HasPrefix(remaining, <<"o", "n", " ">>)
              THEN TrimSpace(From(remaining, 3))
              ELSE <<>>)

ParseTrimmed(tag) ==
    IF tag = <<>> THEN ParsedTag(<<>>, <<>>, <<>>, FALSE, <<>>)
    ELSE IF tag = <<"-">> THEN ParsedTag(<<"-">>, <<>>, <<>>, FALSE, <<>>)
    ELSE IF HasPrefix(tag, <<".", ".", ".">>) THEN ParseFragment(TrimSpace(From(tag, 3)))
    ELSE ParseField(tag, Index(tag, "("), LastIndex(tag, ")"))

ParseGraphQLTag(rawTag) == ParseTrimmed(TrimSpace(rawTag))

(***************************************************************************)
(* reflect.Type: kind, name, element type, struct fields and the methods   *)
(* the code asks about (GetGraphQLType, GetGraphQLWrapped, UnmarshalJSON). *)
(* gql and wrap say how the method is declared: "none", on the value       *)
(* receiver ("value") or on the pointer receiver ("ptr").                  *)
(***************************************************************************)
NoType == [kind |-> "invalid"]

BaseType(kind, name) ==
    [kind |-> kind, name |-> name, elem |-> NoType, len |-> 0, fields |-> <<>>,
     gql |-> "none", gqlName |-> <<>>, wrap |-> "none", wrapRet |-> 0,
     unmarshaler |-> FALSE]

StringT  == BaseType("string", <<"s","t","r","i","n","g">>)
IntT     == BaseType("int", <<"i","n","t">>)
Float64T == BaseType("float64", <<"f","l","o","a","t","6","4">>)
BoolT    == BaseType("bool", <<"b","o","o","l">>)
AnyT     == BaseType("interface", <<>>)
PtrTo(t) == [BaseType("ptr", <<>>) EXCEPT !.elem = t]
SliceOf(t) == [BaseType("slice", <<>>) EXCEPT !.elem = t]
ArrayOf(n, t) == [BaseType("array", <<>>) EXCEPT !.elem = t, !.len = n]
MapT == BaseType("map", <<>>)
StructT(name, fields) == [BaseType("struct", name) EXCEPT !.fields = fields]
\* [][2]any
OrderedMapT == SliceOf(ArrayOf(2, AnyT))
\* json.RawMessage
RawMessageT == BaseType("slice", <<"R","a","w","M","e","s","s","a","g","e">>)

\* reflect.StructField: Tag holds the graphql, scalar and json keys of the struct tag
NoTag == [hasGraphql |-> FALSE, graphql |-> <<>>, scalar |-> <<>>, json |-> <<>>]
GraphqlTag(s) == [NoTag EXCEPT !.hasGraphql = TRUE, !.graphql = s]
JsonTag(s) == [NoTag EXCEPT !.json = s]
ScalarGraphqlTag(s) == [GraphqlTag(s) EXCEPT !.scalar = <<"t","r","u","e">>]
StructField(name, tag, type) ==
    [Name |-> name, Tag |-> tag, Anonymous |-> FALSE, Exported |-> TRUE, Type |-> type]
Embedded(name, type) ==
    [Name |-> name, Tag |-> NoTag, Anonymous |-> TRUE, Exported |-> TRUE, Type |-> type]

(***************************************************************************)
(* Go values                                                               *)
(***************************************************************************)
NilV == [k |-> "nil"]
Str(s) == [k |-> "string", s |-> s]
IntV(n) == [k |-> "int", n |-> n]
\* a float64 i.f, f the digits after the point (0: none)
FloatV(i, f) == [k |-> "float64", i |-> i, f |-> f]
BoolV(b) == [k |-> "bool", b |-> b]
\* a pointer to cell `to` (0: nil)
PtrV(to) == [k |-> "ptr", to |-> to]
\* a slice header: cell arr (0: nil slice), elements off+1 .. off+len of the cell
SliceV(arr, off, len) == [k |-> "slice", arr |-> arr, off |-> off, len |-> len]
StructV(e) == [k |-> "struct", e |-> e]
ArrayV(e) == [k |-> "array", e |-> e]
\* an interface value holding v of dynamic type t (NoType: nil interface)
IfaceV(t, v) == [k |-> "interface", t |-> t, v |-> v]
NilIface == IfaceV(NoType, NilV)
MapV == [k |-> "map"]
\* a json.RawMessage: the tokens of the captured span
RawV(toks) == [k |-> "raw", toks |-> toks]

\* reflect.Zero
RECURSIVE Zero(_)
Zero(t) ==
    CASE t.kind = "string" -> Str(<<>>)
      [] t.kind = "int" -> IntV(0)
      [] t.kind = "float64" -> FloatV(0, 0)
      [] t.kind = "bool" -> BoolV(FALSE)
      [] t.kind = "ptr" -> PtrV(0)
      [] t.kind = "slice" -> IF t = RawMessageT THEN RawV(<<>>) ELSE SliceV(0, 0, 0)
      [] t.kind = "struct" -> StructV([i \in DOMAIN t.fields |-> Zero(t.fields[i].Type)])
      [] t.kind = "array" -> ArrayV([i \in 1..t.len |-> Zero(t.elem)])
      [] t.kind = "interface" -> NilIface
      [] t.kind = "map" -> MapV

(***************************************************************************)
(* The heap and reflect.Value.  A cell is [t, v]: v is the sequence of the *)
(* cell's elements (one for an object made by new(T), the backing array    *)
(* for a slice), t their type.  A reflect.Value is invalid, or addresses   *)
(* the element path[1] of cell loc and then the fields/array elements      *)
(* path[2..]; loc = 0 is a value that is not addressable, held in imm.     *)
(***************************************************************************)
Invalid == [valid |-> FALSE, t |-> NoType, loc |-> 0, path |-> <<>>, imm |-> NilV]
Addr(t, loc, path) == [valid |-> TRUE, t |-> t, loc |-> loc, path |-> path, imm |-> NilV]
Imm(t, val) == [valid |-> TRUE, t |-> t, loc |-> 0, path |-> <<>>, imm |-> val]

RECURSIVE Get(_, _)
Get(val, path) == IF path = <<>> THEN val ELSE Get(val.e[Head(path)], Tail(path))

RECURSIVE Put(_, _, _)
Put(val, path, new) ==
    IF path = <<>> THEN new
    ELSE [val EXCEPT !.e[Head(path)] = Put(@, Tail(path), new)]

\* the value a reflect.Value holds
Load(h, v) ==
    IF v.loc = 0 THEN v.imm ELSE Get(h[v.loc].v[Head(v.path)], Tail(v.path))

\* reflect.Value.Set on an addressable value
Store(h, v, new) ==
    [h EXCEPT ![v.loc].v[Head(v.path)] = Put(@, Tail(v.path), new)]

\* reflect.New / a fresh backing array: the heap with one more cell
Alloc(h, t, vals) == Append(h, [t |-> t, v |-> vals])

Kind(v) == IF v.valid THEN v.t.kind ELSE "invalid"

\* reflect.Value.IsNil, for the kinds that can be nil
IsNil(h, v) ==
    LET val == Load(h, v) IN
    CASE val.k = "ptr" -> val.to = 0
      [] val.k = "interface" -> val.t = NoType
      [] val.k = "slice" -> val.arr = 0
      [] OTHER -> FALSE

\* reflect.Value.Elem of a non-nil pointer or interface
Elem(h, v) ==
    LET val == Load(h, v) IN
    IF val.k = "ptr" THEN Addr(v.t.elem, val.to, <<1>>)
    ELSE Imm(val.t, val.v)

\* reflect.Value.Field(i), i from 1
Field(v, i) ==
    IF v.loc = 0 THEN Imm(v.t.fields[i].Type, v.imm.e[i])
    ELSE Addr(v.t.fields[i].Type, v.loc, Append(v.path, i))

\* reflect.Value.Len of a slice or array
LenOf(h, v) == IF v.t.kind = "array" THEN v.t.len ELSE Load(h, v).len

\* reflect.Value.Index(i), i from 0: slice elements are always addressable
IndexOf(h, v, i) ==
    IF v.t.kind = "array"
    THEN IF v.loc = 0 THEN Imm(v.t.elem, v.imm.e[i + 1])
         ELSE Addr(v.t.elem, v.loc, Append(v.path, i + 1))
    ELSE LET s == Load(h, v) IN Addr(v.t.elem, s.arr, <<s.off + i + 1>>)

(***************************************************************************)
(* internal/reflectutil                                                    *)
(***************************************************************************)
\* WrapperFieldName
WrapperFieldName == <<"V","a","l","u","e">>

\* strconv.ParseBool, errors ignored
IsTrue(s) ==
    s \in {<<"1">>, <<"t">>, <<"T">>, <<"t","r","u","e">>, <<"T","R","U","E">>,
           <<"T","r","u","e">>}

IsIntegerKind(kind) == kind \in {"int", "int8", "int16", "int32", "int64",
                                 "uint", "uint8", "uint16", "uint32", "uint64"}

RECURSIVE UnwrapToConcreteValue(_, _)
UnwrapToConcreteValue(h, v) ==
    IF v.valid /\ Kind(v) \in {"ptr", "interface"}
    THEN IF IsNil(h, v) THEN Invalid ELSE UnwrapToConcreteValue(h, Elem(h, v))
    ELSE v

\* t.Implements(types.GraphqlTypeInterface): the method set of a pointer type holds
\* the methods of both receivers, that of any other type the value receiver's only
ImplementsGraphQLType(t) ==
    IF t.kind = "ptr"
    THEN t.elem.kind \notin {"ptr", "interface", "invalid"} /\ t.elem.gql \in {"value", "ptr"}
    ELSE t.kind # "invalid" /\ t.gql = "value"

\* the name GetGraphQLType() returns for a value of type t
GraphQLTypeName(t) == IF t.kind = "ptr" THEN t.elem.gqlName ELSE t.gqlName

\* v.MethodByName(WrapperMethodName).IsValid() on a value that is no pointer
HasWrapperMethod(t) == t.kind \notin {"ptr", "interface", "invalid"} /\ t.wrap = "value"

IsWrapperType(h, v) ==
    LET c == UnwrapToConcreteValue(h, v) IN
    v.valid /\ c.valid /\ HasWrapperMethod(c.t)

\* GetGraphQLWrapped() returns a copy of the field wrapRet of its receiver
UnwrapValue(h, v) ==
    IF ~IsWrapperType(h, v) THEN Invalid
    ELSE LET c == UnwrapToConcreteValue(h, v) IN
         Imm(c.t.fields[c.t.wrapRet].Type, Load(h, Field(c, c.t.wrapRet)))

\* reflect.Value.FieldByName
FieldByName(v, name) ==
    IF \E i \in DOMAIN v.t.fields : v.t.fields[i].Name = name
    THEN Field(v, CHOOSE i \in DOMAIN v.t.fields : v.t.fields[i].Name = name)
    ELSE Invalid

UnwrapValueField(h, v) ==
    IF ~IsWrapperType(h, v) THEN Invalid
    ELSE FieldByName(UnwrapToConcreteValue(h, v), WrapperFieldName)

NoName == [name |-> <<>>, ok |-> FALSE]

\* the dynamic type of v.Interface()
DynamicType(h, v) == IF Kind(v) = "interface" THEN Load(h, v).t ELSE v.t

\* v.Interface().(types.GraphQLType), for the dynamic type dt, and the nil pointer
\* an interface may hold
GetGraphQLTypeOf(h, v, dt) ==
    IF ~ImplementsGraphQLType(dt) THEN NoName
    ELSE IF Kind(v) = "interface" /\ Load(h, v).v.k = "ptr" /\ Load(h, v).v.to = 0 THEN NoName
    ELSE [name |-> GraphQLTypeName(dt), ok |-> TRUE]

\* GetGraphQLType(v, t): [name, ok]
GetGraphQLType(h, v, t) ==
    IF ~ImplementsGraphQLType(t) THEN NoName
    ELSE IF ~v.valid THEN NoName
    ELSE IF Kind(v) \in {"ptr", "interface"} /\ IsNil(h, v) THEN NoName
    ELSE GetGraphQLTypeOf(h, v, DynamicType(h, v))

GetGraphQLTypeFromType(t) ==
    IF ~ImplementsGraphQLType(t) THEN NoName
    ELSE [name |-> GraphQLTypeName(t), ok |-> TRUE]

IndexSafe(h, v, i) ==
    IF v.valid /\ i >= 0 /\ i < LenOf(h, v) THEN IndexOf(h, v, i) ELSE Invalid

ElemSafe(h, v) ==
    IF v.valid /\ Kind(v) \in {"ptr", "interface"}
    THEN IF IsNil(h, v) THEN Invalid ELSE Elem(h, v)
    ELSE Invalid

FieldSafe(v, i) == IF v.valid THEN Field(v, i) ELSE Invalid

(***************************************************************************)
(* JSON: a document is a tree, the tokenizer's input is its token sequence *)
(* (json.Decoder.Token never returns commas and colons).                   *)
(***************************************************************************)
JStr(s) == [k |-> "string", s |-> s]
\* a json.Number i.f
JNum(i, f) == [k |-> "number", i |-> i, f |-> f]
JBool(b) == [k |-> "bool", b |-> b]
JNull == [k |-> "null"]
\* m: the sequence of <<key, value>> members in document order
JObj(m) == [k |-> "object", m |-> m]
JArr(e) == [k |-> "array", e |-> e]
Delim(c) == [k |-> "delim", c |-> c]
\* a json.RawMessage token: the captured span
RawTok(toks) == [k |-> "raw", toks |-> toks]
NoTok == [k |-> "none"]
\* bytes that are no token where a value may begin, such as a stray } or ,
InvalidCharacter == [k |-> "invalid"]

RECURSIVE Tokens(_)
RECURSIVE MemberTokens(_)
RECURSIVE ElementTokens(_)
Tokens(j) ==
    CASE j.k = "object" -> <<Delim("{")>> \o MemberTokens(j.m) \o <<Delim("}")>>
      [] j.k = "array" -> <<Delim("[")>> \o ElementTokens(j.e) \o <<Delim("]")>>
      [] OTHER -> <<j>>
MemberTokens(m) ==
    IF m = <<>> THEN <<>>
    ELSE <<JStr(Head(m)[1])>> \o Tokens(Head(m)[2]) \o MemberTokens(Tail(m))
ElementTokens(e) ==
    IF e = <<>> THEN <<>> ELSE Tokens(Head(e)) \o ElementTokens(Tail(e))

\* the position of the last token of the value that starts at toks[i], 0 if the
\* input ends before the value does
RECURSIVE ValueEnd(_, _, _)
ValueEnd(toks, i, depth) ==
    IF i > Len(toks) THEN 0
    ELSE LET t == toks[i]
             nd == IF t.k = "delim"
                   THEN IF t.c \in {"{", "["} THEN depth + 1 ELSE depth - 1
                   ELSE depth
         IN IF nd = 0 THEN i ELSE ValueEnd(toks, i + 1, nd)

(***************************************************************************)
(* pkg/jsonutil: names                                                     *)
(***************************************************************************)
\* types.TypenameField
TypenameField == <<"_","_","t","y","p","e","n","a","m","e">>

hasScalarTag(f) == IsTrue(f.Tag.scalar)

\* the response name of a parsed tag is the alias if there is one, else the field name
ParsedHasName(parsed, name) ==
    IF parsed.IsFragment THEN FALSE
    ELSE IF parsed.Alias # <<>> THEN parsed.Alias = name
    ELSE parsed.FieldName = name

keyHasGraphQLName(value, name) == ParsedHasName(ParseGraphQLTag(value), name)

\* the name a field goes by: its type's own GetGraphQLType, else its graphql tag
TagOrTypeName(f, typ) == IF typ.ok THEN typ.name ELSE f.Tag.graphql

hasGraphQLNameWith(f, typ, name) ==
    IF typ.ok \/ f.Tag.hasGraphql
    THEN keyHasGraphQLName(TagOrTypeName(f, typ), name)
    ELSE EqualFold(f.Name, name)

hasGraphQLName(h, f, v, name) ==
    hasGraphQLNameWith(f,
                       IF ImplementsGraphQLType(f.Type)
                       THEN GetGraphQLType(h, v, f.Type)
                       ELSE NoName,
                       name)

keyForGraphQLFragment(value) == ParseGraphQLTag(value).IsFragment

isGraphQLFragment(f) == f.Tag.hasGraphql /\ keyForGraphQLFragment(f.Tag.graphql)

TypeNameOf(parsed) == IF ~parsed.IsFragment THEN <<>> ELSE parsed.TypeName

extractFragmentTypename(tag) == TypeNameOf(ParseGraphQLTag(tag))

\* [val, taggedAsScalar]: the first exported field, from field i on, that has the name
RECURSIVE fieldByGraphQLNameFrom(_, _, _, _)
fieldByGraphQLNameFrom(h, v, name, i) ==
    IF i > Len(v.t.fields) THEN [val |-> Invalid, taggedAsScalar |-> FALSE]
    ELSE IF v.t.fields[i].Exported /\ hasGraphQLName(h, v.t.fields[i], Field(v, i), name)
    THEN [val |-> Field(v, i), taggedAsScalar |-> hasScalarTag(v.t.fields[i])]
    ELSE fieldByGraphQLNameFrom(h, v, name, i + 1)

fieldByGraphQLName(h, v, name) == fieldByGraphQLNameFrom(h, v, name, 1)

isOrderedMap(v) ==
    v.valid /\ v.t.kind = "slice" /\ v.t.elem.kind = "array" /\ v.t.elem.len = 2

\* the value key.Interface() gives for the key of a pair
KeyOf(h, pair) == Load(h, IndexOf(h, pair, 0))

\* key.Interface().(string) succeeds
IsStringKey(key) == key.k = "string" \/ (key.k = "interface" /\ key.v.k = "string")

StringOfKey(key) == IF key.k = "string" THEN key.s ELSE key.v.s

KeyIsString(h, pair) == IsStringKey(KeyOf(h, pair))

KeyString(h, pair) == StringOfKey(KeyOf(h, pair))

\* [val, panic]: the value of the first pair, from pair i on, whose key has the
\* name; the type assertion on a key that is no string panics
\* the variant that takes the value of the first pair, whatever its key
firstPairValue(h, v, name, i) ==
    IF LenOf(h, v) = 0 THEN [val |-> Invalid, panic |-> FALSE]
    ELSE [val |-> IndexOf(h, IndexOf(h, v, 0), 1), panic |-> FALSE]

RECURSIVE orderedMapValueFrom(_, _, _, _)
orderedMapValueFrom(h, v, name, i) ==
    IF i >= LenOf(h, v) THEN [val |-> Invalid, panic |-> FALSE]
    ELSE IF v.t.elem.kind # "array" \/ v.t.elem.len < 2 \/ ~KeyIsString(h, IndexOf(h, v, i))
    THEN [val |-> Invalid, panic |-> TRUE]
    ELSE IF keyHasGraphQLName(KeyString(h, IndexOf(h, v, i)), name)
    THEN [val |-> IndexOf(h, IndexOf(h, v, i), 1), panic |-> FALSE]
    ELSE orderedMapValueFrom(h, v, name, i + 1)

orderedMapValueByGraphQLName(h, v, name) == orderedMapValueFrom(h, v, name, 0)

(***************************************************************************)
(* pkg/jsonutil: errors.  A panic of the Go runtime (Set on a value that   *)
(* is not addressable, an index out of range, a failed type assertion) is  *)
(* the outcome "panic".                                                    *)
(***************************************************************************)
NoErr == [code |-> "nil"]
ErrNonPointer == [code |-> "cannot decode into non-pointer"]
ErrUnexpectedEnd == [code |-> "unexpected end of JSON input"]
ErrNonKey == [code |-> "unexpected non-key in JSON input"]
ErrNoField(key, n) == [code |-> "struct field doesn't exist", key |-> key, n |-> n]
ErrNoSlice(n) == [code |-> "slice doesn't exist", n |-> n]
ErrTemplateSize(max, n) == [code |-> "template slice can only have", max |-> max, n |-> n]
ErrTemplateMap == [code |-> "unsupported template type"]
ErrTrailing(tok) == [code |-> "invalid token after top-level value", tok |-> tok]
ErrUnmarshal == [code |-> "json: cannot unmarshal"]
ErrSyntax == [code |-> "json: unexpected EOF"]
\* io.EOF
ErrEOF == [code |-> "EOF"]
\* the tokenizer's error for bytes that are no token
ErrInvalidCharacter == [code |-> "json: invalid character"]
ErrDelimiter == [code |-> "unexpected delimiter in JSON input"]
Panic == [code |-> "panic"]

\* the codes of the errors the client makes
ErrJsonDecode == "json_decode_error"
ErrGraphQLEncode == "graphql_encode_error"
ErrGraphQLDecode == "graphql_decode_error"
\* Error: its message and Extensions["code"] ("": none)
GqlError(message, code) == [Message |-> message, code |-> code]
\* newError(code, err)
newError(code, e) == GqlError(e.code, code)

(***************************************************************************)
(* pkg/jsonutil: stack and valueStack (stacks are numbered from 1)         *)
(***************************************************************************)
Top(s) == s[Len(s)]

Pop(s) == SubSeq(s, 1, Len(s) - 1)

vsLen(vs) == Len(vs.values)

top(vs, i) == Top(vs.values[i])

push(vs, i, v) == [vs EXCEPT !.values[i] = Append(@, v)]

\* a new stack as deep as the first one
addStackLevel(vs, v, fragType) ==
    [values |-> Append(vs.values,
                       IF vs.values = <<>> THEN <<v>>
                       ELSE [n \in DOMAIN vs.values[1] |-> v]),
     fragmentTypes |-> Append(vs.fragmentTypes, fragType)]

addStack(vs, v, fragType) ==
    [values |-> Append(vs.values, <<v>>),
     fragmentTypes |-> Append(vs.fragmentTypes, fragType)]

fragmentType(vs, i) ==
    IF i <= Len(vs.fragmentTypes) THEN vs.fragmentTypes[i] ELSE <<>>

\* the stacks popped and the empty ones dropped, the names left as they were
popAllValues(vs) ==
    [values |-> SelectSeq([i \in DOMAIN vs.values |-> Pop(vs.values[i])],
                          LAMBDA s : Len(s) > 0),
     fragmentTypes |-> vs.fragmentTypes]

popAll(vs) ==
    LET popped == [i \in DOMAIN vs.values |->
                      [s |-> Pop(vs.values[i]), ft |-> fragmentType(vs, i)]]
        nonEmpty == SelectSeq(popped, LAMBDA p : Len(p.s) > 0)
    IN [values |-> [i \in DOMAIN nonEmpty |-> nonEmpty[i].s],
        fragmentTypes |-> [i \in DOMAIN nonEmpty |-> nonEmpty[i].ft]]

\* v.Set(v.Slice(1, v.Len())): [h, err]
DropFirst(h, v, sl) ==
    IF sl.len < 1 \/ v.loc = 0 THEN [h |-> h, err |-> Panic]
    ELSE [h |-> Store(h, v, SliceV(sl.arr, sl.off + 1, sl.len - 1)), err |-> NoErr]

\* [h, err] after the loop over the stacks i..vsLen(vs)
RECURSIVE popLeftArrayTemplatesFrom(_, _, _)
RECURSIVE popLeftArrayTemplatesNext(_, _, _)
RECURSIVE popLeftArrayTemplatesAt(_, _, _, _)
popLeftArrayTemplatesFrom(vs, h, i) ==
    IF i > vsLen(vs) THEN [h |-> h, err |-> NoErr]
    ELSE popLeftArrayTemplatesAt(vs, h, i, UnwrapToConcreteValue(h, top(vs, i)))
popLeftArrayTemplatesAt(vs, h, i, v) ==
    IF v.valid /\ Kind(v) = "slice"
    THEN popLeftArrayTemplatesNext(vs, i, DropFirst(h, v, Load(h, v)))
    ELSE popLeftArrayTemplatesFrom(vs, h, i + 1)
popLeftArrayTemplatesNext(vs, i, r) ==
    IF r.err # NoErr THEN r ELSE popLeftArrayTemplatesFrom(vs, r.h, i + 1)

\* the variant that leaves the template element in the lists
keepArrayTemplates(vs, h) == [h |-> h, err |-> NoErr]

popLeftArrayTemplates(vs, h) == popLeftArrayTemplatesFrom(vs, h, 1)

(***************************************************************************)
(* pkg/jsonutil: object keys                                               *)
(***************************************************************************)
\* fieldInfo, and with it what findFieldsForKey learns at the stack: whether the
\* field is a json.RawMessage, whether looking it up panicked
fieldInfo(field, isScalar, fragmentMatch, raw, panic) ==
    [field |-> field, isScalar |-> isScalar, fragmentMatch |-> fragmentMatch,
     raw |-> raw, panic |-> panic]

\* for f.Kind() == reflect.Ptr { f = f.Elem() }
RECURSIVE DerefPointers(_, _)
DerefPointers(h, f) ==
    IF f.valid /\ Kind(f) = "ptr"
    THEN IF IsNil(h, f) THEN Invalid ELSE DerefPointers(h, Elem(h, f))
    ELSE f

\* a field that is a wrapper gives way to the wrapper's Value field
\* the variant that keeps the wrapper as the destination
keepWrapper(f, unwrapped) == f

Redirect(f, unwrapped) == IF f.valid /\ unwrapped.valid THEN unwrapped ELSE f

StructFieldInfo(f, scalar, fragmentMatch) ==
    fieldInfo(f, scalar, fragmentMatch, f.valid /\ f.t = RawMessageT, FALSE)

StructFieldFor(h, byName, fragmentMatch) ==
    StructFieldInfo(Redirect(byName.val, UnwrapValueField(h, byName.val)),
                    byName.taggedAsScalar, fragmentMatch)

MapValueFor(h, inMap, fragmentMatch) ==
    fieldInfo(DerefPointers(h, inMap.val), FALSE, fragmentMatch, FALSE, inMap.panic)

\* the switch on v.Kind() of findFieldsForKey
FieldFor(h, v, key, fragmentMatch) ==
    CASE Kind(v) = "struct" -> StructFieldFor(h, fieldByGraphQLName(h, v, key), fragmentMatch)
      [] Kind(v) = "slice" ->
             MapValueFor(h, orderedMapValueByGraphQLName(h, v, key), fragmentMatch)
      [] OTHER -> fieldInfo(Invalid, FALSE, fragmentMatch, FALSE, FALSE)

\* a stack matches unless it is a fragment's and a typename is known that is not its
FragmentMatch(fragType, currentTypename) ==
    IF fragType # <<>> /\ currentTypename # <<>> THEN fragType = currentTypename ELSE TRUE

findFieldsForKeyIn(fields) ==
    [fields |-> fields,
     hasMatchingFragmentWithField |->
         \E i \in DOMAIN fields : fields[i].field.valid /\ fields[i].fragmentMatch,
     rawMessage |-> \E i \in DOMAIN fields : fields[i].raw,
     panic |-> \E i \in DOMAIN fields : fields[i].panic]

\* [fields, hasMatchingFragmentWithField, rawMessage, panic]
findFieldsForKey(d, h, key) ==
    findFieldsForKeyIn(
        [i \in 1..vsLen(d.vs) |->
            FieldFor(h, UnwrapToConcreteValue(h, top(d.vs, i)), key,
                     FragmentMatch(fragmentType(d.vs, i), d.currentTypename))])

\* [vs, someFieldExist, isScalar]
\* a selection that keeps a fragment's field only when the discriminator names the
\* fragment: the variant without the fallback for an empty discriminator
selectByDiscriminator(d, fields, hasMatchingFragmentWithField) ==
    [vs |-> [d.vs EXCEPT !.values =
                [i \in 1..vsLen(d.vs) |->
                    Append(d.vs.values[i],
                           IF fragmentType(d.vs, i) \in {<<>>, d.currentTypename}
                           THEN fields[i].field
                           ELSE Invalid)]],
     someFieldExist |-> \E i \in 1..vsLen(d.vs) : fields[i].field.valid,
     isScalar |-> \E i \in 1..vsLen(d.vs) : fields[i].field.valid /\ fields[i].isScalar]

selectAndPushFields(d, fields, hasMatchingFragmentWithField) ==
    [vs |-> [d.vs EXCEPT !.values =
                [i \in 1..vsLen(d.vs) |->
                    Append(d.vs.values[i],
                           IF fields[i].field.valid /\ ~fields[i].fragmentMatch
                              /\ hasMatchingFragmentWithField
                           THEN Invalid
                           ELSE fields[i].field)]],
     someFieldExist |-> \E i \in 1..vsLen(d.vs) : fields[i].field.valid,
     isScalar |-> \E i \in 1..vsLen(d.vs) : fields[i].field.valid /\ fields[i].isScalar]

\* tokenizer.Decode(&data): the span that ends at token end (0: the input ends first)
DecodeRaw(data, pos, end) ==
    IF pos >= Len(data) THEN [tok |-> NoTok, pos |-> pos, err |-> ErrEOF]
    ELSE IF end = 0 THEN [tok |-> NoTok, pos |-> Len(data), err |-> ErrSyntax]
    ELSE [tok |-> RawTok(SubSeq(data, pos + 1, end)), pos |-> end, err |-> NoErr]

\* the variant that reads one token whatever the destination is
readOneToken(data, pos, rawMessage, isScalar) ==
    IF pos >= Len(data) THEN [tok |-> NoTok, pos |-> pos, err |-> ErrUnexpectedEnd]
    ELSE [tok |-> data[pos + 1], pos |-> pos + 1, err |-> NoErr]

\* [tok, pos, err]: tokenizer.Decode(&data) for a raw or scalar field, else Token()
readNextToken(data, pos, rawMessage, isScalar) ==
    IF rawMessage \/ isScalar THEN DecodeRaw(data, pos, ValueEnd(data, pos + 1, 0))
    ELSE IF pos >= Len(data) THEN [tok |-> NoTok, pos |-> pos, err |-> ErrUnexpectedEnd]
    ELSE [tok |-> data[pos + 1], pos |-> pos + 1, err |-> NoErr]

decodeObjectKeyRead(d, next) ==
    [d |-> [d EXCEPT !.pos = next.pos], tok |-> next.tok, err |-> next.err]

\* the variant that goes on to the value of a key no stack has a destination for
decodeObjectKeyAnyway(d, data, key, rawMessage, sel) ==
    decodeObjectKeyRead([d EXCEPT !.vs = sel.vs],
                        readNextToken(data, d.pos, rawMessage, sel.isScalar))

decodeObjectKeySelected(d, data, key, rawMessage, sel) ==
    IF ~sel.someFieldExist
    THEN [d |-> [d EXCEPT !.vs = sel.vs], tok |-> NoTok, err |-> ErrNoField(key, vsLen(d.vs))]
    ELSE decodeObjectKeyRead([d EXCEPT !.vs = sel.vs],
                             readNextToken(data, d.pos, rawMessage, sel.isScalar))

decodeObjectKeyFound(d, data, key, found) ==
    IF found.panic THEN [d |-> d, tok |-> NoTok, err |-> Panic]
    ELSE decodeObjectKeySelected(
             d, data, key, found.rawMessage,
             selectAndPushFields(d, found.fields, found.hasMatchingFragmentWithField))

decodeObjectKeyAt(d, h, data, key) ==
    decodeObjectKeyFound(d, data, key, findFieldsForKey(d, h, key))

\* [d, tok, err]
decodeObjectKey(d, h, data, key) ==
    decodeObjectKeyAt([d EXCEPT !.currentKey = key], h, data, key)

(***************************************************************************)
(* encoding/json.Unmarshal of one token (or captured span) into a fresh    *)
(* value of type t, as unmarshalValue uses it: [h, val, err].              *)
(***************************************************************************)
\* the bytes json.Marshal(tok) gives, as a token sequence
Marshal(tok) == IF tok.k = "raw" THEN tok.toks ELSE <<tok>>

\* what an empty interface receives: string, float64, bool or nil
DefaultValue(j) ==
    CASE j.k = "string" -> IfaceV(StringT, Str(j.s))
      [] j.k = "number" -> IfaceV(Float64T, FloatV(j.i, j.f))
      [] j.k = "bool" -> IfaceV(BoolT, BoolV(j.b))
      [] j.k = "null" -> NilIface

RECURSIVE JsonUnmarshal(_, _, _)
JsonUnmarshal(h, b, t) ==
    LET j == b[1]
        ok(val) == [h |-> h, val |-> val, err |-> NoErr]
        bad == [h |-> h, val |-> Zero(t), err |-> ErrUnmarshal]
    IN IF t = RawMessageT THEN ok(RawV(b))
       ELSE IF Len(b) = 1 /\ j.k = "null" THEN ok(Zero(t))
       ELSE IF t.kind = "ptr"
       THEN LET inner == JsonUnmarshal(h, b, t.elem)
                h2 == Alloc(inner.h, t.elem, <<inner.val>>)
            IN IF inner.err # NoErr THEN [inner EXCEPT !.val = Zero(t)]
               ELSE [h |-> h2, val |-> PtrV(Len(h2)), err |-> NoErr]
       ELSE IF Len(b) # 1 /\ t.kind \in {"string", "int", "float64", "bool"} THEN bad
       ELSE CASE t.kind = "string" -> IF j.k = "string" THEN ok(Str(j.s)) ELSE bad
              [] t.kind = "int" -> IF j.k = "number" /\ j.f = 0 THEN ok(IntV(j.i)) ELSE bad
              [] t.kind = "float64" -> IF j.k = "number" THEN ok(FloatV(j.i, j.f)) ELSE bad
              [] t.kind = "bool" -> IF j.k = "bool" THEN ok(BoolV(j.b)) ELSE bad
              [] t.kind = "interface" /\ Len(b) = 1 -> ok(DefaultValue(j))
              [] t.kind \in {"struct", "slice", "array", "map"} /\ Len(b) = 1 -> bad

\* v.Set(newVal.Elem()), an interface keeping its dynamic type ty: [h, err]
unmarshalValueSet(v, held, ty, r) ==
    IF r.err # NoErr THEN [h |-> r.h, err |-> r.err]
    ELSE IF v.loc = 0 THEN [h |-> r.h, err |-> Panic]
    ELSE [h |-> Store(r.h, v, IF held THEN IfaceV(ty, r.val) ELSE r.val), err |-> NoErr]

\* held: v is an interface that holds a value, whose type ty the new value takes
unmarshalValueAs(h, value, v, held, ty) ==
    IF v.t.kind = "interface" /\ ~held /\ v.loc = 0 THEN [h |-> h, err |-> Panic]
    ELSE unmarshalValueSet(v, held, ty, JsonUnmarshal(h, Marshal(value), ty))

unmarshalValueInto(h, value, v, cur) ==
    unmarshalValueAs(h, value, v,
                     v.t.kind = "interface" /\ cur.t # NoType,
                     IF v.t.kind = "interface" /\ cur.t # NoType THEN cur.t ELSE v.t)

\* [h, err]
unmarshalValue(h, value, v) == unmarshalValueInto(h, value, v, Load(h, v))

(***************************************************************************)
(* pkg/jsonutil: scalar values                                             *)
(***************************************************************************)
\* [h, err] after the loop over the stacks i..vsLen(vs)
RECURSIVE unmarshalInto(_, _, _, _)
RECURSIVE unmarshalNext(_, _, _, _)
unmarshalInto(vs, h, tok, i) ==
    IF i > vsLen(vs) THEN [h |-> h, err |-> NoErr]
    ELSE IF ~top(vs, i).valid THEN unmarshalInto(vs, h, tok, i + 1)
    ELSE unmarshalNext(vs, tok, i, unmarshalValue(h, tok, top(vs, i)))
unmarshalNext(vs, tok, i, r) ==
    IF r.err # NoErr THEN r ELSE unmarshalInto(vs, r.h, tok, i + 1)

decodeScalarValueDone(d, r) ==
    IF r.err # NoErr THEN [d |-> d, h |-> r.h, err |-> r.err]
    ELSE [d |-> [d EXCEPT !.vs = popAll(d.vs)], h |-> r.h, err |-> NoErr]

\* [d, h, err]
decodeScalarValue(d, h, tok) ==
    decodeScalarValueDone(IF d.currentKey = TypenameField /\ tok.k = "string"
                          THEN [d EXCEPT !.currentTypename = tok.s]
                          ELSE d,
                          unmarshalInto(d.vs, h, tok, 1))

(***************************************************************************)
(* pkg/jsonutil: arrays                                                    *)
(***************************************************************************)
\* maxTemplateSliceSize
maxTemplateSliceSize == 1

\* the elements of the slice value sl
Elements(h, sl) == IF sl.arr = 0 THEN <<>> ELSE SubSeq(h[sl.arr].v, sl.off + 1, sl.off + sl.len)

\* reflect.MakeSlice(m.Type(), 0, m.Len()) filled with the pairs of m: [h, val, err]
copyOrderedMap(h, m) ==
    [h |-> Alloc(h, m.t.elem, Elements(h, Load(h, m))),
     val |-> SliceV(Len(h) + 1, 0, LenOf(h, m)),
     err |-> NoErr]

\* [h, val, err]: the value to append for the template
copyTemplate(h, template) ==
    IF isOrderedMap(template) THEN copyOrderedMap(h, template)
    ELSE IF Kind(template) = "map" THEN [h |-> h, val |-> NilV, err |-> ErrTemplateMap]
    ELSE [h |-> h, val |-> Load(h, template), err |-> NoErr]

\* reflect.Append(v, x) and v.Set of it: the elements move to a fresh backing array
AppendTo(h, v, x) ==
    Store(Alloc(h, v.t.elem, Append(Elements(h, Load(h, v)), x)), v,
          SliceV(Len(h) + 1, 0, LenOf(h, v) + 1))

\* the slice a stack top stands for in decodeArrayValue: that of a wrapper is its
\* Value field
ArrayTargetOf(v, unwrapped) == IF v.valid /\ unwrapped.valid THEN unwrapped ELSE v

ArrayTargetIn(h, v) == ArrayTargetOf(v, UnwrapValueField(h, v))

ArrayTarget(h, t) == ArrayTargetIn(h, UnwrapToConcreteValue(h, t))

\* [vs, h, err, someSliceExist] after the loop over the stacks i..vsLen(vs)
RECURSIVE decodeArrayValueFrom(_, _, _, _)
RECURSIVE decodeArrayValueAt(_, _, _, _, _)
RECURSIVE decodeArrayValueAppend(_, _, _, _, _)
RECURSIVE decodeArrayValuePush(_, _, _, _)
decodeArrayValueFrom(vs, h, i, someSliceExist) ==
    IF i > vsLen(vs)
    THEN [vs |-> vs, h |-> h, err |-> NoErr, someSliceExist |-> someSliceExist]
    ELSE decodeArrayValueAt(vs, h, i, someSliceExist, ArrayTarget(h, top(vs, i)))
decodeArrayValueAt(vs, h, i, someSliceExist, v) ==
    IF Kind(v) # "slice"
    THEN decodeArrayValueFrom(push(vs, i, Invalid), h, i + 1, someSliceExist)
    ELSE IF LenOf(h, v) = 0 \/ v.loc = 0
    THEN [vs |-> vs, h |-> h, err |-> Panic, someSliceExist |-> TRUE]
    ELSE decodeArrayValueAppend(vs, h, i, v, copyTemplate(h, IndexOf(h, v, 0)))
decodeArrayValueAppend(vs, h, i, v, copied) ==
    IF copied.err # NoErr
    THEN [vs |-> vs, h |-> h, err |-> copied.err, someSliceExist |-> TRUE]
    ELSE decodeArrayValuePush(vs, i, v, AppendTo(copied.h, v, copied.val))
decodeArrayValuePush(vs, i, v, h) ==
    decodeArrayValueFrom(push(vs, i, IndexOf(h, v, LenOf(h, v) - 1)), h, i + 1, TRUE)

decodeArrayValueDone(d, r) ==
    [d |-> [d EXCEPT !.vs = r.vs], h |-> r.h,
     err |-> IF r.err # NoErr THEN r.err
             ELSE IF ~r.someSliceExist THEN ErrNoSlice(vsLen(d.vs))
             ELSE NoErr]

\* [d, h, err]
decodeArrayValue(d, h) == decodeArrayValueDone(d, decodeArrayValueFrom(d.vs, h, 1, FALSE))

RECURSIVE AllocFields(_, _, _)
\* the heap in which the nil pointer fields i.. of the record of cell c point to
\* new zero values
AllocFields(h, c, i) ==
    IF h[c].t.kind # "struct" \/ i > Len(h[c].t.fields) THEN h
    ELSE IF h[c].t.fields[i].Type.kind = "ptr"
    THEN AllocFields([Alloc(h, h[c].t.fields[i].Type.elem,
                            <<Zero(h[c].t.fields[i].Type.elem)>>)
                      EXCEPT ![c].v[1].e[i] = PtrV(Len(h) + 1)], c, i + 1)
    ELSE AllocFields(h, c, i + 1)

\* the variant that also allocates the pointers of the new value
InitNilPointerDeep(h, v) ==
    IF v.valid /\ Kind(v) = "ptr" /\ IsNil(h, v)
    THEN IF v.loc = 0 THEN [h |-> h, err |-> Panic]
         ELSE [h |-> AllocFields(Store(Alloc(h, v.t.elem, <<Zero(v.t.elem)>>), v,
                                       PtrV(Len(h) + 1)), Len(h) + 1, 1),
               err |-> NoErr]
    ELSE [h |-> h, err |-> NoErr]

\* if v.Kind() == reflect.Ptr && v.IsNil() { v.Set(reflect.New(v.Type().Elem())) }: [h, err]
InitNilPointer(h, v) ==
    IF v.valid /\ Kind(v) = "ptr" /\ IsNil(h, v)
    THEN IF v.loc = 0 THEN [h |-> h, err |-> Panic]
         ELSE [h |-> Store(Alloc(h, v.t.elem, <<Zero(v.t.elem)>>), v, PtrV(Len(h) + 1)),
               err |-> NoErr]
    ELSE [h |-> h, err |-> NoErr]

\* the elements of newSlice: a zero template, or the template the slice came with
NewSlice(h, v, n) ==
    IF n = 0 THEN <<Zero(v.t.elem)>>
    ELSE IF n = maxTemplateSliceSize THEN <<Load(h, IndexOf(h, v, 0))>>
    ELSE <<>>

\* [h, err] after the loop over the stacks i..vsLen(vs)
RECURSIVE decodeArrayStartFrom(_, _, _)
RECURSIVE decodeArrayStartInit(_, _, _)
RECURSIVE decodeArrayStartAt(_, _, _, _)
RECURSIVE decodeArrayStartSet(_, _, _, _, _)
\* the variant that takes the first element as the template of a list of any length
decodeArrayStartAtFirst(vs, h, i, v) ==
    IF Kind(v) # "slice" THEN decodeArrayStartFrom(vs, h, i + 1)
    ELSE IF v.loc = 0 THEN [h |-> h, err |-> Panic]
    ELSE decodeArrayStartSet(vs, h, i, v,
                             NewSlice(h, v, IF LenOf(h, v) > maxTemplateSliceSize
                                            THEN maxTemplateSliceSize ELSE LenOf(h, v)))
decodeArrayStartFrom(vs, h, i) ==
    IF i > vsLen(vs) THEN [h |-> h, err |-> NoErr]
    ELSE decodeArrayStartInit(vs, i, InitNilPointer(h, top(vs, i)))
decodeArrayStartInit(vs, i, init) ==
    IF init.err # NoErr THEN init
    ELSE decodeArrayStartAt(vs, init.h, i, UnwrapToConcreteValue(init.h, top(vs, i)))
decodeArrayStartAt(vs, h, i, v) ==
    IF Kind(v) # "slice" THEN decodeArrayStartFrom(vs, h, i + 1)
    ELSE IF LenOf(h, v) > maxTemplateSliceSize
    THEN [h |-> h, err |-> ErrTemplateSize(maxTemplateSliceSize, LenOf(h, v))]
    ELSE IF v.loc = 0 THEN [h |-> h, err |-> Panic]
    ELSE decodeArrayStartSet(vs, h, i, v, NewSlice(h, v, LenOf(h, v)))
decodeArrayStartSet(vs, h, i, v, newSlice) ==
    decodeArrayStartFrom(
        vs, Store(Alloc(h, v.t.elem, newSlice), v, SliceV(Len(h) + 1, 0, Len(newSlice))),
        i + 1)

decodeArrayStartDone(d, r) == [d |-> d, h |-> r.h, err |-> r.err]

\* [d, h, err]
decodeArrayStart(d, h) ==
    decodeArrayStartDone([d EXCEPT !.parseState = Append(@, "[")],
                         decodeArrayStartFrom(d.vs, h, 1))

handleArrayEndDone(d, r) ==
    IF r.err # NoErr THEN [d |-> d, h |-> r.h, err |-> r.err]
    ELSE [d |-> [d EXCEPT !.vs = popAll(d.vs), !.parseState = Pop(@)],
          h |-> r.h, err |-> NoErr]

\* [d, h, err]
handleArrayEnd(d, h) == handleArrayEndDone(d, popLeftArrayTemplates(d.vs, h))

(***************************************************************************)
(* pkg/jsonutil: objects                                                   *)
(***************************************************************************)
\* [h, err] after the loop over the stacks i..vsLen(vs)
RECURSIVE initNilPointersFrom(_, _, _)
RECURSIVE initNilPointersNext(_, _, _)
initNilPointersFrom(vs, h, i) ==
    IF i > vsLen(vs) THEN [h |-> h, err |-> NoErr]
    ELSE initNilPointersNext(vs, i, InitNilPointer(h, top(vs, i)))
initNilPointersNext(vs, i, init) ==
    IF init.err # NoErr THEN init ELSE initNilPointersFrom(vs, init.h, i + 1)

Branch(val, fragType) == [val |-> val, fragType |-> fragType]

\* the stacks a struct adds: its fragment fields and its embedded fields, in order
RECURSIVE StructBranches(_, _)
StructBranches(v, i) ==
    IF i > Len(v.t.fields) THEN <<>>
    ELSE IF isGraphQLFragment(v.t.fields[i])
    THEN <<Branch(Field(v, i), extractFragmentTypename(v.t.fields[i].Tag.graphql))>>
         \o StructBranches(v, i + 1)
    ELSE IF v.t.fields[i].Anonymous
    THEN <<Branch(Field(v, i), <<>>)>> \o StructBranches(v, i + 1)
    ELSE StructBranches(v, i + 1)

\* the stacks an ordered map adds: the values of its fragment keys, in order
RECURSIVE OrderedMapBranches(_, _, _)
RECURSIVE OrderedMapBranch(_, _, _, _)
OrderedMapBranches(h, v, i) ==
    IF i >= LenOf(h, v) THEN <<>>
    ELSE OrderedMapBranch(h, v, i, KeyString(h, IndexOf(h, v, i)))
OrderedMapBranch(h, v, i, keyStr) ==
    IF keyForGraphQLFragment(keyStr)
    THEN <<Branch(IndexOf(h, IndexOf(h, v, i), 1), extractFragmentTypename(keyStr))>>
         \o OrderedMapBranches(h, v, i + 1)
    ELSE OrderedMapBranches(h, v, i + 1)

Branches(h, v) ==
    IF Kind(v) = "struct" THEN StructBranches(v, 1)
    ELSE IF isOrderedMap(v) THEN OrderedMapBranches(h, v, 0)
    ELSE <<>>

RECURSIVE addStacks(_, _)
addStacks(vs, branches) ==
    IF branches = <<>> THEN vs
    ELSE addStacks(addStack(vs, Head(branches).val, Head(branches).fragType), Tail(branches))

\* [vs, err]: the frontier loop of decodeObjectStart
RECURSIVE exploreFrontier(_, _, _)
RECURSIVE exploreValue(_, _, _, _)
RECURSIVE exploreBranches(_, _, _, _)
exploreFrontier(vs, h, frontier) ==
    IF frontier = <<>> THEN [vs |-> vs, err |-> NoErr]
    ELSE exploreValue(vs, h, Tail(frontier), UnwrapToConcreteValue(h, Head(frontier)))
exploreValue(vs, h, frontier, v) ==
    IF isOrderedMap(v) /\ \E i \in 0..(LenOf(h, v) - 1) : ~KeyIsString(h, IndexOf(h, v, i))
    THEN [vs |-> vs, err |-> Panic]
    ELSE exploreBranches(vs, h, frontier, Branches(h, v))
exploreBranches(vs, h, frontier, branches) ==
    exploreFrontier(addStacks(vs, branches), h,
                    frontier \o [n \in DOMAIN branches |-> branches[n].val])

decodeObjectStartFound(d, h, r) == [d |-> [d EXCEPT !.vs = r.vs], h |-> h, err |-> r.err]

decodeObjectStartInit(d, init) ==
    IF init.err # NoErr THEN [d |-> d, h |-> init.h, err |-> init.err]
    ELSE decodeObjectStartFound(
             d, init.h,
             exploreFrontier(d.vs, init.h, [i \in 1..vsLen(d.vs) |-> top(d.vs, i)]))

\* [d, h, err]
decodeObjectStart(d, h) ==
    decodeObjectStartInit([d EXCEPT !.parseState = Append(@, "{")],
                          initNilPointersFrom(d.vs, h, 1))

\* the variant that leaves the marker of the object on the parse state
handleObjectEndOpen(d, h) ==
    [d |-> [d EXCEPT !.vs = popAll(d.vs)], h |-> h, err |-> NoErr]

\* [d, h, err]
handleObjectEnd(d, h) ==
    [d |-> [d EXCEPT !.vs = popAll(d.vs), !.parseState = Pop(@)], h |-> h, err |-> NoErr]

\* d.state(): the innermost open delimiter, "" if none
state(d) == IF d.parseState = <<>> THEN "" ELSE Top(d.parseState)

(***************************************************************************)
(* ident: the lower camel case of a Go identifier; the first word, a       *)
(* capital or an initialism, goes to lower case.                           *)
(***************************************************************************)
IsUpper(c) == \E i \in DOMAIN UpperCase : UpperCase[i] = c

RECURSIVE LowerFirstWord(_, _)
LowerFirstWord(name, i) ==
    IF i > Len(name) \/ ~IsUpper(name[i]) THEN name
    ELSE IF i > 1 /\ i < Len(name) /\ ~IsUpper(name[i + 1]) THEN name
    ELSE LowerFirstWord([name EXCEPT ![i] = ToLower(@)], i + 1)

\* ident.ParseMixedCaps(name).ToLowerCamelCase()
ToLowerCamelCase(name) == LowerFirstWord(name, 1)

(***************************************************************************)
(* query_writer.go: the selection of a value.  A writer returns [out, err],*)
(* out what it wrote to w.                                                 *)
(***************************************************************************)
ErrMapQuery == [code |-> "type is not supported, use [][2]any instead"]
ErrPairLen == [code |-> "only arrays of len 2 are supported"]
ErrPairKey == [code |-> "expected pair (string, _)"]

Wrote(out) == [out |-> out, err |-> NoErr]
Failed(e) == [out |-> <<>>, err |-> e]

\* what a writer wrote after out was written
After(out, r) == IF r.err # NoErr THEN r ELSE Wrote(out \o r.out)

\* what two writers wrote, one after the other
Both(r1, r2) == IF r1.err # NoErr THEN r1 ELSE After(r1.out, r2)

\* fieldOutput
fieldOutput(shouldSkip, name, isInline, isScalar) ==
    [shouldSkip |-> shouldSkip, name |-> name, isInline |-> isInline, isScalar |-> isScalar]

SkipField == fieldOutput(TRUE, <<>>, FALSE, FALSE)

\* the name the field's type gives it: [skip, name, ok]
SelfReported(skip, typ) == [skip |-> skip, name |-> typ.name, ok |-> typ.ok]

SelfReportedOf(typ) == SelfReported(~typ.ok, typ)

\* the variant in which no type reports its name
noSelfReport(h, f, fieldValue) == SelfReported(FALSE, NoName)

SelfReportedName(h, f, fieldValue) ==
    IF ImplementsGraphQLType(f.Type)
    THEN IF ~fieldValue.valid
            \/ (Kind(fieldValue) \in {"ptr", "interface"} /\ IsNil(h, fieldValue))
         THEN SelfReported(TRUE, NoName)
         ELSE SelfReportedOf(GetGraphQLType(h, fieldValue, f.Type))
    ELSE IF f.Type.kind = "slice" /\ ImplementsGraphQLType(f.Type.elem)
    THEN SelfReported(FALSE, GetGraphQLTypeFromType(f.Type.elem))
    ELSE SelfReported(FALSE, NoName)

\* value, ok after f.Tag.Lookup
processStructFieldTagged(f, value, ok) ==
    IF value = <<"-">> THEN SkipField
    ELSE fieldOutput(FALSE,
                     IF f.Anonymous /\ ~ok THEN <<>>
                     ELSE IF ok THEN value
                     ELSE ToLowerCamelCase(f.Name),
                     f.Anonymous /\ ~ok,
                     IsTrue(f.Tag.scalar))

processStructFieldNamed(f, self) ==
    IF self.skip THEN SkipField
    ELSE IF self.ok THEN processStructFieldTagged(f, self.name, TRUE)
    ELSE processStructFieldTagged(f, f.Tag.graphql, f.Tag.hasGraphql)

processStructField(h, f, fieldValue) ==
    processStructFieldNamed(f, SelfReportedName(h, f, fieldValue))

\* jsonUnmarshaler, idType
IDType == BaseType("string", <<"I","D">>)

\* reflect.ValueOf(x.Interface())
ValueOf(h, x) ==
    IF Kind(x) = "interface"
    THEN IF IsNil(h, x) THEN Invalid ELSE Elem(h, x)
    ELSE Imm(x.t, Load(h, x))

Comma(iter) == IF iter # 0 THEN <<",">> ELSE <<>>

\* the variant that writes a wrapper as the record it is
RECURSIVE writeStructAsDeclared(_, _, _, _)
RECURSIVE writeQuery(_, _, _, _)
RECURSIVE writeStructQuery(_, _, _, _)
RECURSIVE writeWrappedQuery(_, _, _, _, _)
RECURSIVE writeStructFields(_, _, _, _, _)
RECURSIVE writeStructField(_, _, _, _, _, _)
RECURSIVE writeSliceQuery(_, _, _)
RECURSIVE writeOrderedMapQuery(_, _, _)
RECURSIVE writePairs(_, _, _)
RECURSIVE writePair(_, _, _, _, _)
RECURSIVE writeInterfaceQuery(_, _, _, _)
RECURSIVE writeInterfaceValue(_, _, _)

\* the fields i.. of the struct, iter of them written before
writeStructFields(h, t, v, i, iter) ==
    IF i > Len(t.fields) THEN Wrote(<<>>)
    ELSE writeStructField(h, t, v, i, iter,
                          processStructField(h, t.fields[i], FieldSafe(v, i)))

writeStructField(h, t, v, i, iter, output) ==
    IF output.shouldSkip THEN writeStructFields(h, t, v, i + 1, iter)
    ELSE IF output.isScalar
    THEN After(Comma(iter) \o output.name, writeStructFields(h, t, v, i + 1, iter + 1))
    ELSE After(Comma(iter) \o output.name,
               Both(writeQuery(h, t.fields[i].Type, FieldSafe(v, i), output.isInline),
                    writeStructFields(h, t, v, i + 1, iter + 1)))

writeWrappedQuery(h, t, v, inline, wrapped) ==
    IF wrapped.valid THEN writeQuery(h, wrapped.t, wrapped, inline)
    ELSE IF t.unmarshaler THEN Wrote(<<>>)
    ELSE IF t = IDType THEN Wrote(<<>>)
    ELSE IF inline THEN writeStructFields(h, t, v, 1, 0)
    ELSE After(<<"{">>, Both(writeStructFields(h, t, v, 1, 0), Wrote(<<"}">>)))

writeStructAsDeclared(h, t, v, inline) == writeWrappedQuery(h, t, v, inline, Invalid)

writeStructQuery(h, t, v, inline) ==
    writeWrappedQuery(h, t, v, inline,
                      IF v.valid /\ IsWrapperType(h, v) THEN UnwrapValue(h, v) ELSE Invalid)

\* the variant that writes the selection set of every element of the list
RECURSIVE writeElements(_, _, _, _)
writeElements(h, t, v, i) ==
    IF ~v.valid \/ i >= LenOf(h, v) THEN Wrote(<<>>)
    ELSE Both(writeQuery(h, t.elem, IndexOf(h, v, i), FALSE), writeElements(h, t, v, i + 1))
writeEveryElement(h, t, v) == writeElements(h, t, v, 0)

writeSliceQuery(h, t, v) ==
    IF t.elem.kind # "array" THEN writeQuery(h, t.elem, IndexSafe(h, v, 0), FALSE)
    ELSE writeOrderedMapQuery(h, t, v)

\* the pairs i.. of the ordered map; the key of a pair must be a string, and
\* val.Type() panics for a pair whose value is a nil interface
writePairs(h, v, i) ==
    IF i >= LenOf(h, v) THEN Wrote(<<>>)
    ELSE writePair(h, v, i, KeyOf(h, IndexOf(h, v, i)),
                   ValueOf(h, IndexOf(h, IndexOf(h, v, i), 1)))

writePair(h, v, i, key, val) ==
    IF ~val.valid THEN Failed(Panic)
    ELSE IF ~IsStringKey(key) THEN Failed(ErrPairKey)
    ELSE After(StringOfKey(key),
               Both(writeQuery(h, val.t, val, FALSE), writePairs(h, v, i + 1)))

writeOrderedMapQuery(h, t, v) ==
    IF t.elem.len # 2 THEN Failed(ErrPairLen)
    ELSE IF ~v.valid THEN Failed(Panic)
    ELSE After(<<"{">>, Both(writePairs(h, v, 0), Wrote(<<"}">>)))

writeInterfaceValue(h, val, inline) ==
    IF ~val.valid THEN Wrote(<<>>)
    ELSE IF Kind(val) \in {"ptr", "interface", "slice", "map"} /\ IsNil(h, val)
    THEN Wrote(<<>>)
    ELSE writeQuery(h, val.t, val, inline)

\* v.Interface() panics for the zero Value
writeInterfaceQuery(h, t, v, inline) ==
    IF ~v.valid THEN Failed(Panic) ELSE writeInterfaceValue(h, ValueOf(h, v), inline)

writeQuery(h, t, v, inline) ==
    CASE t.kind = "interface" -> writeInterfaceQuery(h, t, v, inline)
      [] t.kind = "ptr" -> writeQuery(h, t.elem, ElemSafe(h, v), FALSE)
      [] t.kind = "struct" -> writeStructQuery(h, t, v, inline)
      [] t.kind = "slice" -> writeSliceQuery(h, t, v)
      [] t.kind = "map" -> Failed(ErrMapQuery)
      [] OTHER -> Wrote(<<>>)

\* query(v): [out, err]
query(h, v) == writeQuery(h, v.t, v, FALSE)

(***************************************************************************)
(* query arguments: the declaration of the variables of an operation.      *)
(* variables is a map[string]any, [k |-> "vars", m |-> key :> value], or a *)
(* struct or a pointer to one.                                             *)
(***************************************************************************)
VarsV(m) == [k |-> "vars", m |-> m]

Bang(value) == IF value THEN <<"!">> ELSE <<>>

\* the name of a type that declares itself: with the value if there is one, else
\* with the type
GraphQLTypeOrFromType(t, typ) == IF typ.ok THEN typ ELSE GetGraphQLTypeFromType(t)

ArgumentTypeName(h, t, v) ==
    GraphQLTypeOrFromType(t, IF v # NilIface THEN GetGraphQLType(h, Imm(v.t, v.v), t)
                             ELSE NoName)

\* t.Name(), "String" for string
TypeName(t) == IF t.name = <<"s","t","r","i","n","g">> THEN <<"S","t","r","i","n","g">> ELSE t.name

\* writeArgumentType(w, t, v, value): what it writes to w
RECURSIVE writeArgumentType(_, _, _, _)
RECURSIVE writeArgumentTypeNamed(_, _, _, _, _)
RECURSIVE writeArgumentKind(_, _, _, _)
\* the variant that writes "!" for a pointer that is not nil
writeArgumentTypeOfValue(h, t, v, value) ==
    IF ImplementsGraphQLType(t)
    THEN writeArgumentTypeNamed(h, t, v, t.kind # "ptr", ArgumentTypeName(h, t, v))
    ELSE IF t.kind = "ptr"
    THEN writeArgumentKind(h, t.elem, v, v.v.k = "ptr" /\ v.v.to # 0)
    ELSE writeArgumentKind(h, t, v, value)
\* the variant that writes for a pointer what it writes for the type pointed to
writeArgumentKindOfElem(h, t, v, value) ==
    IF t.kind = "ptr" THEN writeArgumentType(h, t.elem, v, value)
    ELSE IF IsIntegerKind(t.kind) THEN <<"I","n","t">> \o Bang(value)
    ELSE IF t.kind \in {"slice", "array"}
    THEN <<"[">> \o writeArgumentType(h, t.elem, NilIface, TRUE) \o <<"]">> \o Bang(value)
    ELSE IF t.kind \in {"float32", "float64"} THEN <<"F","l","o","a","t">> \o Bang(value)
    ELSE IF t.kind = "bool" THEN <<"B","o","o","l","e","a","n">> \o Bang(value)
    ELSE TypeName(t) \o Bang(value)
writeArgumentType(h, t, v, value) ==
    IF ImplementsGraphQLType(t)
    THEN writeArgumentTypeNamed(h, t, v, t.kind # "ptr", ArgumentTypeName(h, t, v))
    ELSE writeArgumentKind(h, t, v, value)
writeArgumentTypeNamed(h, t, v, value, typ) ==
    IF typ.ok THEN typ.name \o Bang(value) ELSE writeArgumentKind(h, t, v, value)
writeArgumentKind(h, t, v, value) ==
    IF t.kind = "ptr" THEN writeArgumentType(h, t.elem, v, FALSE)
    ELSE IF IsIntegerKind(t.kind) THEN <<"I","n","t">> \o Bang(value)
    ELSE IF t.kind \in {"slice", "array"}
    THEN <<"[">> \o writeArgumentType(h, t.elem, NilIface, TRUE) \o <<"]">> \o Bang(value)
    ELSE IF t.kind \in {"float32", "float64"} THEN <<"F","l","o","a","t">> \o Bang(value)
    ELSE IF t.kind = "bool" THEN <<"B","o","o","l","e","a","n">> \o Bang(value)
    ELSE TypeName(t) \o Bang(value)

\* argumentFieldInfo; a key of the map with its value is one too
argumentFieldInfo(jsonName, fieldType, value) ==
    [jsonName |-> jsonName, fieldType |-> fieldType, value |-> value]

\* sort.Strings, sort.Slice by jsonName: insertion into a sorted sequence
RECURSIVE Insert(_, _)
Insert(sorted, f) ==
    IF sorted = <<>> THEN <<f>>
    ELSE IF StrLess(f.jsonName, Head(sorted).jsonName) THEN <<f>> \o sorted
    ELSE <<Head(sorted)>> \o Insert(Tail(sorted), f)

\* the fields as they are given: the variant without the sort
asGiven(fields) == fields

RECURSIVE SortByName(_)
SortByName(fields) ==
    IF fields = <<>> THEN <<>>
    ELSE Insert(SortByName(Tail(fields)), Head(fields))

\* the keys of the map in some order, each with its value
RECURSIVE KeysOf(_, _)
RECURSIVE KeysOfFrom(_, _, _)
KeysOf(m, keys) ==
    IF keys = {} THEN <<>>
    ELSE KeysOfFrom(m, keys, CHOOSE k \in keys : TRUE)
KeysOfFrom(m, keys, k) ==
    <<argumentFieldInfo(k, m[k].t, m[k])>> \o KeysOf(m, keys \ {k})

\* the orders in which `for k := range variables` may give the keys
KeyOrders(m) ==
    {order \in [1..Cardinality(DOMAIN m) -> DOMAIN m] :
        \A i, j \in DOMAIN order : order[i] = order[j] => i = j}

\* the keys as appended in one of these orders, each with its value
KeysIn(m, order) == [i \in DOMAIN order |-> argumentFieldInfo(order[i], m[order[i]].t, m[order[i]])]

\* the keys writeArgumentsFromMap walks
SortedKeys(variables) == SortByName(KeysOf(variables.m, DOMAIN variables.m))

\* the name of a json tag: the tag up to its first comma
JsonName(jsonTag) ==
    IF Index(jsonTag, ",") > 0 THEN SubSeq(jsonTag, 1, Index(jsonTag, ",") - 1) ELSE jsonTag

\* f.value.Interface()
InterfaceOf(h, v) == IF Kind(v) = "interface" THEN Load(h, v) ELSE IfaceV(v.t, Load(h, v))

\* the fields i.. of the struct that have a name in their json tag
RECURSIVE CollectFields(_, _, _, _)
CollectFields(h, typ, val, i) ==
    IF i > Len(typ.fields) THEN <<>>
    ELSE IF ~typ.fields[i].Exported
            \/ typ.fields[i].Tag.json \in {<<>>, <<"-">>}
            \/ JsonName(typ.fields[i].Tag.json) \in {<<>>, <<"-">>}
    THEN CollectFields(h, typ, val, i + 1)
    ELSE <<argumentFieldInfo(JsonName(typ.fields[i].Tag.json), typ.fields[i].Type,
                             InterfaceOf(h, Field(val, i)))>>
         \o CollectFields(h, typ, val, i + 1)

\* the variant that returns an error for what is no struct
collectStructFieldsOrError(h, typ, val) ==
    IF typ.kind # "struct" \/ ~val.valid THEN [fields |-> <<>>, err |-> ErrUnmarshal]
    ELSE [fields |-> SortByName(CollectFields(h, typ, val, 1)), err |-> NoErr]

\* [fields, err]: variables must be a struct or a pointer to one, else it panics
collectStructFieldsOf(h, typ, val) ==
    IF typ.kind # "struct" \/ ~val.valid THEN [fields |-> <<>>, err |-> Panic]
    ELSE [fields |-> SortByName(CollectFields(h, typ, val, 1)), err |-> NoErr]

collectStructFieldsForArguments(h, variables) ==
    IF variables = NilIface THEN [fields |-> <<>>, err |-> Panic]
    ELSE IF variables.t.kind = "ptr"
    THEN collectStructFieldsOf(h, variables.t.elem,
                               IF variables.v.to = 0 THEN Invalid
                               ELSE Addr(variables.t.elem, variables.v.to, <<1>>))
    ELSE collectStructFieldsOf(h, variables.t, Imm(variables.t, variables.v))

\* what the loop of writeArgumentsFromMap, writeArgumentsFromFields writes for one
\* entry; reflect.TypeOf of a nil value is nil, and asking it anything panics
writeArgument(h, f) ==
    <<"$">> \o f.jsonName \o <<":">> \o writeArgumentType(h, f.fieldType, f.value, TRUE)

\* [out, err]
RECURSIVE writeArgumentsFromFields(_, _)
writeArgumentsFromFields(h, fields) ==
    IF fields = <<>> THEN Wrote(<<>>)
    ELSE IF Head(fields).fieldType = NoType THEN Failed(Panic)
    ELSE After(writeArgument(h, Head(fields)), writeArgumentsFromFields(h, Tail(fields)))

writeArgumentsFromMap(h, variables) == writeArgumentsFromFields(h, SortedKeys(variables))

writeArgumentsCollected(h, collected) ==
    IF collected.err # NoErr THEN Failed(collected.err)
    ELSE writeArgumentsFromFields(h, collected.fields)

\* queryArguments(variables): [out, err]
queryArguments(h, variables) ==
    IF variables.k = "vars" THEN writeArgumentsFromMap(h, variables)
    ELSE writeArgumentsCollected(h, collectStructFieldsForArguments(h, variables))

\* hasVariables
hasVariables(variables) ==
    IF variables = NilIface THEN FALSE
    ELSE variables.k # "vars" \/ DOMAIN variables.m # {}

\* constructOperation("query", v, variables, false), without options: [out, err]
constructOperationWith(h, variables, q) ==
    IF q.err # NoErr THEN Failed(q.err)
    ELSE IF hasVariables(variables)
    THEN After(<<"q","u","e","r","y"," ","(">>,
               Both(queryArguments(h, variables), Wrote(<<")">> \o q.out)))
    ELSE q

\* ConstructQuery(v, variables)
ConstructQuery(h, v, variables) == constructOperationWith(h, variables, query(h, v))

(***************************************************************************)
(* The targets UnmarshalGraphQL is given, and the responses for each.      *)
(***************************************************************************)
\* the most members an object of a response has
MaxMembers == 3
\* the most elements an array of a response has
MaxElems == 2

nA == <<"A">>
nB == <<"B">>
nC == <<"C">>
sX == <<"x">>
sY == <<"y">>
sInitial == <<"i","n","i","t">>
kNonce == <<"n","o","n","c","e">>
kChild == <<"c","h","i","l","d">>
kFoo == <<"f","o","o">>
kName == <<"n","a","m","e">>
kSingle == <<"s","i","n","g","l","e">>
\* the tag of an inline fragment on a type
OnTag(name) == <<".",".","."," ","o","n"," ">> \o name

typenameFieldDecl == StructField(<<"T","y","p","e","n","a","m","e">>, GraphqlTag(TypenameField), StringT)
nonceFieldDecl(t) == StructField(<<"N","o","n","c","e">>, GraphqlTag(kNonce), t)
fragA == StructT(<<"f","r","a","g","A">>, <<nonceFieldDecl(StringT)>>)
fragB == StructT(<<"f","r","a","g","B">>, <<nonceFieldDecl(StringT)>>)
fragAInt == StructT(<<"f","r","a","g","A","I","n","t">>, <<nonceFieldDecl(IntT)>>)
fragmentA(t) == StructField(<<"A">>, GraphqlTag(OnTag(nA)), t)
fragmentB(t) == StructField(<<"B">>, GraphqlTag(OnTag(nB)), t)

\* struct { Typename string; A fragA `... on A`; B fragB `... on B` }
unionType == StructT(<<"u","n","i","o","n">>,
                     <<typenameFieldDecl, fragmentA(fragA), fragmentB(fragB)>>)
\* the same, the two fragments' fields of conflicting types
conflictType == StructT(<<"c","o","n","f","l","i","c","t">>,
                        <<typenameFieldDecl, fragmentA(fragAInt), fragmentB(fragB)>>)
\* the same, the field declared outside of the fragments too
rootedType == StructT(<<"r","o","o","t","e","d">>,
                      <<typenameFieldDecl, nonceFieldDecl(StringT),
                        fragmentA(fragA), fragmentB(fragB)>>)
\* a union that holds a union
parentType == StructT(<<"p","a","r","e","n","t">>,
                      <<typenameFieldDecl,
                        StructField(<<"C","h","i","l","d">>, GraphqlTag(kChild), unionType),
                        fragmentA(fragA), fragmentB(fragB)>>)

\* the objects with at most MaxMembers members, each of a key of the schema (at
\* most once, in any order) with one of the key's values
ObjDocs(schema) ==
    LET I == DOMAIN schema
        lens == 0..(IF Len(schema) < MaxMembers THEN Len(schema) ELSE MaxMembers)
        orders == UNION {{o \in [1..n -> I] : \A a, b \in 1..n : a # b => o[a] # o[b]} :
                         n \in lens}
        allVals == UNION {schema[i].vals : i \in I}
        fill(o) == {g \in [DOMAIN o -> allVals] : \A q \in DOMAIN o : g[q] \in schema[o[q]].vals}
    IN UNION {{JObj([q \in DOMAIN o |-> <<schema[o[q]].key, g[q]>>]) : g \in fill(o)} :
              o \in orders}

\* the arrays with at most MaxElems elements, each one of vals
ArrDocs(vals) == UNION {{JArr(e) : e \in [1..n -> vals]} : n \in 0..MaxElems}

unionDocs ==
    ObjDocs(<<[key |-> TypenameField, vals |-> {JStr(nA), JStr(nB), JStr(nC)}],
              [key |-> kNonce, vals |-> {JStr(sX)}]>>)
conflictDocs ==
    ObjDocs(<<[key |-> TypenameField, vals |-> {JStr(nA), JStr(nB)}],
              [key |-> kNonce, vals |-> {JStr(sX), JNum(1, 0)}]>>)
childDocs ==
    ObjDocs(<<[key |-> TypenameField, vals |-> {JStr(nA), JStr(nB)}],
              [key |-> kNonce, vals |-> {JStr(sY)}]>>)
parentDocs ==
    ObjDocs(<<[key |-> TypenameField, vals |-> {JStr(nA), JStr(nB)}],
              [key |-> kNonce, vals |-> {JStr(sX)}],
              [key |-> kChild, vals |-> childDocs]>>)

listDocs == ArrDocs({JStr(sX), JStr(sY), JNull})
itemType == StructT(<<"i","t","e","m">>, <<StructField(<<"N","a","m","e">>, NoTag, StringT)>>)
itemDocs == ArrDocs(ObjDocs(<<[key |-> kName, vals |-> {JStr(sX)}]>>))
\* struct { Foo []string }
queryType == StructT(<<"q","u","e","r","y">>,
                     <<StructField(<<"F","o","o">>, NoTag, SliceOf(StringT))>>)
queryDocs == ObjDocs(<<[key |-> kFoo, vals |-> listDocs \cup {JNull}]>>)

\* a heap whose cell 1 holds the target and whose other cells are rest
HeapOf(t, val, rest) == <<[t |-> t, v |-> <<val>>]>> \o rest

\* a call of UnmarshalGraphQL(response, &target)
Scenario(name, t, h, docs) ==
    [name |-> name, entry |-> "UnmarshalGraphQL", t |-> t, heap |-> h, docs |-> docs,
     stream |-> "whole", v |-> Imm(PtrTo(t), PtrV(1)), errors |-> {<<>>}]

\* a call of Client.Query(ctx, &target, nil)
QueryScenario(name, t, h, docs) ==
    [name |-> name, entry |-> "Query", t |-> t, heap |-> h, docs |-> docs,
     stream |-> "whole", v |-> Imm(PtrTo(t), PtrV(1)), errors |-> {<<>>}]

\* a call of UnmarshalGraphQL whose data is the response, a part of it, or the
\* response and more
StreamScenario(name, t, h, docs) == [Scenario(name, t, h, docs) EXCEPT !.stream = "any"]

\* what follows the top-level value: a token, or bytes that are no token
Trailing ==
    {<<Delim("[")>>, <<Str(sX)>>, <<Delim("{"), Str(kFoo), Str(sY), Delim("}")>>,
     <<InvalidCharacter>>}

\* the data of a call: the tokens of the response, and for a stream scenario
\* also each proper prefix of them and each continuation by Trailing
Streams(stream, toks) ==
    IF stream = "whole" THEN {toks}
    ELSE {SubSeq(toks, 1, n) : n \in 0..Len(toks)} \cup {toks \o more : more \in Trailing}

UnionScenarios ==
    {Scenario("union", unionType, HeapOf(unionType, Zero(unionType), <<>>), unionDocs),
     Scenario("conflict", conflictType, HeapOf(conflictType, Zero(conflictType), <<>>),
              conflictDocs),
     Scenario("rooted", rootedType, HeapOf(rootedType, Zero(rootedType), <<>>), unionDocs),
     Scenario("parent", parentType, HeapOf(parentType, Zero(parentType), <<>>), parentDocs)}

ListScenarios ==
    {Scenario("list nil", SliceOf(StringT),
              HeapOf(SliceOf(StringT), SliceV(0, 0, 0), <<>>), listDocs),
     Scenario("list initial", SliceOf(StringT),
              HeapOf(SliceOf(StringT), SliceV(2, 0, 1),
                     <<[t |-> StringT, v |-> <<Str(sInitial)>>]>>), listDocs),
     Scenario("list two", SliceOf(StringT),
              HeapOf(SliceOf(StringT), SliceV(2, 0, 2),
                     <<[t |-> StringT, v |-> <<Str(sInitial), Str(sInitial)>>]>>), listDocs),
     Scenario("list field", queryType,
              HeapOf(queryType, StructV(<<SliceV(2, 0, 1)>>),
                     <<[t |-> StringT, v |-> <<Str(sInitial)>>]>>), queryDocs),
     Scenario("list of objects", SliceOf(itemType),
              HeapOf(SliceOf(itemType), SliceV(2, 0, 1),
                     <<[t |-> itemType, v |-> <<StructV(<<Str(sInitial)>>)>>]>>), itemDocs)}

kValue == <<"V","a","l","u","e">>
kWrapper == <<"w","r","a","p","p","e","r">>
kAlias == <<"n">>
kAliased == <<"n",":","n","a","m","e">>
kBar == <<"b","a","r">>

\* type Wrapper[T any] struct { Value T }, with GetGraphQLWrapped() T
WrapperOf(name, inner) ==
    [StructT(name, <<StructField(kValue, NoTag, inner)>>) EXCEPT !.wrap = "value", !.wrapRet = 1]
\* the same, with GetGraphQLType() returning "wrapper"
NamedWrapperOf(name, inner) ==
    [WrapperOf(name, inner) EXCEPT !.gql = "value", !.gqlName = kWrapper]

\* struct { Name string `graphql:"name"` }
innerType == StructT(<<"i","n","n","e","r">>,
                     <<StructField(<<"N","a","m","e">>, GraphqlTag(kName), StringT)>>)
wrapperType == WrapperOf(<<"W","r","a","p","p","e","r">>, innerType)
stringWrapperType == WrapperOf(<<"W","r","a","p","p","e","r","S">>, StringT)
listWrapperType == WrapperOf(<<"W","r","a","p","p","e","r","L">>, SliceOf(StringT))
namedWrapperType == NamedWrapperOf(<<"W","r","a","p","p","e","r","N">>, innerType)

\* struct { Single t `graphql:"single"` }
holderOf(t) == StructT(<<"h","o","l","d","e","r">>,
                       <<StructField(<<"S","i","n","g","l","e">>, GraphqlTag(kSingle), t)>>)

innerDocs == ObjDocs(<<[key |-> kName, vals |-> {JStr(sX), JStr(sY)}]>>)
holderDocs(key, vals) == ObjDocs(<<[key |-> key, vals |-> vals]>>)

WrapperScenarios ==
    {QueryScenario("plain", holderOf(innerType),
                   HeapOf(holderOf(innerType), Zero(holderOf(innerType)), <<>>),
                   holderDocs(kSingle, innerDocs)),
     QueryScenario("wrapper", holderOf(wrapperType),
                   HeapOf(holderOf(wrapperType), Zero(holderOf(wrapperType)), <<>>),
                   holderDocs(kSingle, innerDocs \cup {JNull})),
     QueryScenario("wrapper pointer", holderOf(PtrTo(wrapperType)),
                   HeapOf(holderOf(PtrTo(wrapperType)), StructV(<<PtrV(2)>>),
                          <<[t |-> wrapperType, v |-> <<Zero(wrapperType)>>]>>),
                   holderDocs(kSingle, innerDocs)),
     QueryScenario("wrapper of string", holderOf(stringWrapperType),
                   HeapOf(holderOf(stringWrapperType), Zero(holderOf(stringWrapperType)), <<>>),
                   holderDocs(kSingle, {JStr(sX), JStr(sY), JNull})),
     QueryScenario("wrapper of list", holderOf(listWrapperType),
                   HeapOf(holderOf(listWrapperType), Zero(holderOf(listWrapperType)), <<>>),
                   holderDocs(kSingle, listDocs)),
     QueryScenario("wrapper named", holderOf(namedWrapperType),
                   HeapOf(holderOf(namedWrapperType), Zero(holderOf(namedWrapperType)), <<>>),
                   holderDocs(kWrapper, innerDocs)),
     QueryScenario("the wrapper", wrapperType,
                   HeapOf(wrapperType, Zero(wrapperType), <<>>), innerDocs)}

\* a pair of an ordered map
Pair(key, t, val) == ArrayV(<<IfaceV(StringT, Str(key)), IfaceV(t, val)>>)

\* [][2]any of the pairs
OrderedMapHeap(pairs, rest) ==
    HeapOf(OrderedMapT, SliceV(2, 0, Len(pairs)), <<[t |-> ArrayOf(2, AnyT), v |-> pairs]>> \o rest)

OrderedMapScenarios ==
    {QueryScenario("ordered map", OrderedMapT,
                   OrderedMapHeap(<<Pair(kFoo, StringT, Str(<<>>)),
                                    Pair(kBar, IntT, IntV(0))>>, <<>>),
                   ObjDocs(<<[key |-> kFoo, vals |-> {JStr(sX), JStr(sY)}],
                             [key |-> kBar, vals |-> {JNum(1, 0)}]>>)),
     QueryScenario("ordered map alias", OrderedMapT,
                   OrderedMapHeap(<<Pair(kAliased, StringT, Str(<<>>)),
                                    Pair(kName, StringT, Str(<<>>))>>, <<>>),
                   ObjDocs(<<[key |-> kAlias, vals |-> {JStr(sX)}],
                             [key |-> kName, vals |-> {JStr(sX), JStr(sY)}]>>)),
     QueryScenario("ordered map of objects", OrderedMapT,
                   OrderedMapHeap(<<Pair(kFoo, PtrTo(innerType), PtrV(3)),
                                    Pair(kChild, PtrTo(innerType), PtrV(4))>>,
                                  <<[t |-> innerType, v |-> <<Zero(innerType)>>],
                                    [t |-> innerType, v |-> <<Zero(innerType)>>]>>),
                   ObjDocs(<<[key |-> kFoo, vals |-> innerDocs],
                             [key |-> kChild, vals |-> innerDocs]>>))}

\* struct { Single t `graphql:"<tag>"` }
holderWith(tag, t) ==
    StructT(<<"h","o","l","d","e","r">>, <<StructField(<<"S","i","n","g","l","e">>, tag, t)>>)

\* struct { Name string `graphql:"name"` }, with GetGraphQLType() returning "wrapper"
namedInnerType == [innerType EXCEPT !.gql = "value", !.gqlName = kWrapper]

kSkip == <<"-">>

\* fields whose type reports its name, under a tag that gives another name, an
\* alias or "-"
NamedScenarios ==
    {QueryScenario("named skip", holderWith(GraphqlTag(kSkip), namedWrapperType),
                   HeapOf(holderWith(GraphqlTag(kSkip), namedWrapperType),
                          Zero(holderWith(GraphqlTag(kSkip), namedWrapperType)), <<>>),
                   holderDocs(kWrapper, innerDocs)),
     QueryScenario("named alias", holderWith(GraphqlTag(kAliased), namedWrapperType),
                   HeapOf(holderWith(GraphqlTag(kAliased), namedWrapperType),
                          Zero(holderWith(GraphqlTag(kAliased), namedWrapperType)), <<>>),
                   holderDocs(kWrapper, innerDocs)),
     QueryScenario("named list", holderOf(SliceOf(namedInnerType)),
                   HeapOf(holderOf(SliceOf(namedInnerType)),
                          Zero(holderOf(SliceOf(namedInnerType))), <<>>),
                   holderDocs(kSingle, ArrDocs(innerDocs))),
     QueryScenario("named nil pointer", holderOf(PtrTo(namedWrapperType)),
                   HeapOf(holderOf(PtrTo(namedWrapperType)),
                          Zero(holderOf(PtrTo(namedWrapperType))), <<>>),
                   holderDocs(kSingle, innerDocs))}

\* the most elements the list of the target holds before the call
MaxItems == 2

\* struct { Single []inner `graphql:"single"` } whose list holds n elements
ItemsScenarios ==
    {QueryScenario("items", holderOf(SliceOf(innerType)),
                   HeapOf(holderOf(SliceOf(innerType)),
                          StructV(<<IF n = 0 THEN SliceV(0, 0, 0) ELSE SliceV(2, 0, n)>>),
                          IF n = 0 THEN <<>>
                          ELSE <<[t |-> innerType,
                                  v |-> [i \in 1..n |-> StructV(<<Str(sInitial)>>)]]>>),
                   holderDocs(kSingle, ArrDocs(innerDocs))) : n \in 0..MaxItems}

kData == <<"d","a","t","a">>
kPtr == <<"p","t","r">>

\* struct { Data json.RawMessage `graphql:"data"`
\*          Ptr *json.RawMessage `graphql:"ptr" scalar:"true"`
\*          Name string `graphql:"name" scalar:"true"` }
rawType ==
    StructT(<<"r","a","w">>,
            <<StructField(<<"D","a","t","a">>, GraphqlTag(kData), RawMessageT),
              StructField(<<"P","t","r">>, ScalarGraphqlTag(kPtr), PtrTo(RawMessageT)),
              StructField(<<"N","a","m","e">>, ScalarGraphqlTag(kName), StringT)>>)

\* struct { A struct { Data *json.RawMessage `graphql:"data" scalar:"true"` } `graphql:"... on A"`
\*          B struct { Data string `graphql:"data"` } `graphql:"... on B"` }
rawUnionType ==
    StructT(<<"r","a","w","U","n","i","o","n">>,
            <<StructField(nA, GraphqlTag(OnTag(nA)),
                          StructT(<<>>, <<StructField(<<"D","a","t","a">>, ScalarGraphqlTag(kData),
                                                      PtrTo(RawMessageT))>>)),
              StructField(nB, GraphqlTag(OnTag(nB)),
                          StructT(<<>>, <<StructField(<<"D","a","t","a">>, GraphqlTag(kData),
                                                      StringT)>>))>>)

\* the values of a key that is captured: a string, an object, an array
rawVals == {JStr(sX), JObj(<< <<kName, JStr(sY)>> >>), JArr(<<JNum(1, 0)>>)}

RawScenarios ==
    {Scenario("raw", rawType, HeapOf(rawType, Zero(rawType), <<>>),
              ObjDocs(<<[key |-> kData, vals |-> rawVals], [key |-> kPtr, vals |-> rawVals],
                        [key |-> kName, vals |-> rawVals]>>)),
     Scenario("raw union", rawUnionType, HeapOf(rawUnionType, Zero(rawUnionType), <<>>),
              ObjDocs(<<[key |-> kData, vals |-> rawVals]>>))}

\* responses with the key foo, which the targets do not declare
UnknownKeyScenarios ==
    {Scenario("unknown", unionType, HeapOf(unionType, Zero(unionType), <<>>),
              ObjDocs(<<[key |-> kNonce, vals |-> {JStr(sX)}],
                        [key |-> kFoo, vals |-> {JStr(sY), JObj(<<>>)}]>>)),
     Scenario("unknown plain", innerType, HeapOf(innerType, Zero(innerType), <<>>),
              ObjDocs(<<[key |-> kName, vals |-> {JStr(sX)}],
                        [key |-> kFoo, vals |-> {JStr(sY), JObj(<<>>)}]>>))}

\* responses that end early or go on after the top-level value: an object with a
\* list, an object with captured values, an ordered map
StreamScenarios ==
    {StreamScenario("stream", queryType,
                    HeapOf(queryType, StructV(<<SliceV(2, 0, 1)>>),
                           <<[t |-> StringT, v |-> <<Str(sInitial)>>]>>), queryDocs),
     StreamScenario("stream raw", rawType, HeapOf(rawType, Zero(rawType), <<>>),
                    ObjDocs(<<[key |-> kData, vals |-> rawVals],
                              [key |-> kName, vals |-> {JStr(sX)}]>>)),
     StreamScenario("stream map", OrderedMapT,
                    OrderedMapHeap(<<Pair(kFoo, StringT, Str(<<>>))>>, <<>>),
                    ObjDocs(<<[key |-> kFoo, vals |-> {JStr(sX), JStr(sY)}]>>))}

\* struct { Node1 *inner `graphql:"foo"`; Node2 *inner `graphql:"child"` }
nodesType ==
    StructT(<<"n","o","d","e","s">>,
            <<StructField(<<"N","o","d","e","1">>, GraphqlTag(kFoo), PtrTo(innerType)),
              StructField(<<"N","o","d","e","2">>, GraphqlTag(kChild), PtrTo(innerType))>>)

\* a response without data
NoData == [k |-> "absent"]

\* the errors of a response: what a server sends, and one whose extensions carry
\* the code the client gives to a response it could not read
notFound == GqlError("Could not resolve to a node", "NOT_FOUND")
forbidden == GqlError("forbidden", "")
reserved == GqlError("bad input", ErrJsonDecode)

\* Client.Query with a response of data, of errors, of both
PartialScenarios ==
    {[QueryScenario("partial", nodesType, HeapOf(nodesType, Zero(nodesType), <<>>),
                    ObjDocs(<<[key |-> kFoo, vals |-> {JObj(<< <<kName, JStr(sX)>> >>), JNull}],
                              [key |-> kChild, vals |-> {JObj(<< <<kName, JStr(sY)>> >>), JNull,
                                                        JStr(sX)}]>>)
                    \cup {NoData, JNull})
      EXCEPT !.errors = {<<>>, <<notFound>>, <<notFound, forbidden>>, <<reserved>>,
                         <<notFound, reserved>>}]}

\* []*inner and []inner: nil, and with a template at index 0 that is a nil
\* pointer, a pointer to an inner named "init", an inner named "init"
TemplateScenarios ==
    {Scenario("pointers, no template", SliceOf(PtrTo(innerType)),
              HeapOf(SliceOf(PtrTo(innerType)), SliceV(0, 0, 0), <<>>), ArrDocs(innerDocs)),
     Scenario("pointers, nil template", SliceOf(PtrTo(innerType)),
              HeapOf(SliceOf(PtrTo(innerType)), SliceV(2, 0, 1),
                     <<[t |-> PtrTo(innerType), v |-> <<PtrV(0)>>]>>), ArrDocs(innerDocs)),
     Scenario("pointers, template", SliceOf(PtrTo(innerType)),
              HeapOf(SliceOf(PtrTo(innerType)), SliceV(2, 0, 1),
                     <<[t |-> PtrTo(innerType), v |-> <<PtrV(3)>>],
                       [t |-> innerType, v |-> <<StructV(<<Str(sInitial)>>)>>]>>),
              ArrDocs(innerDocs)),
     Scenario("records, template", SliceOf(innerType),
              HeapOf(SliceOf(innerType), SliceV(2, 0, 1),
                     <<[t |-> innerType, v |-> <<StructV(<<Str(sInitial)>>)>>]>>),
              ArrDocs(innerDocs))}

\* the responses decoded into a target that is no pointer to a record
targetDocs == innerDocs \cup {JStr(sX), JNull, JArr(<<>>), JArr(<<JStr(sX)>>)}

\* calls whose argument v is (*inner)(nil), an inner passed by value, and nil
TargetScenarios ==
    {[Scenario("nil pointer", innerType, HeapOf(innerType, Zero(innerType), <<>>), targetDocs)
      EXCEPT !.v = Imm(PtrTo(innerType), PtrV(0))],
     [Scenario("non-pointer", innerType, HeapOf(innerType, Zero(innerType), <<>>), targetDocs)
      EXCEPT !.v = Imm(innerType, Zero(innerType))],
     [Scenario("nil", innerType, HeapOf(innerType, Zero(innerType), <<>>), targetDocs)
      EXCEPT !.v = Invalid]}

\* [][][2]any with one map as the template: of the pair name: "", of the pair
\* foo: &inner{}, of the pair foo: [][2]any{{"name", ""}}
MapTemplateScenarios ==
    {Scenario("maps, template", SliceOf(OrderedMapT),
              HeapOf(SliceOf(OrderedMapT), SliceV(2, 0, 1),
                     <<[t |-> OrderedMapT, v |-> <<SliceV(3, 0, 1)>>],
                       [t |-> ArrayOf(2, AnyT), v |-> <<Pair(kName, StringT, Str(<<>>))>>]>>),
              ArrDocs(innerDocs)),
     Scenario("maps of pointers, template", SliceOf(OrderedMapT),
              HeapOf(SliceOf(OrderedMapT), SliceV(2, 0, 1),
                     <<[t |-> OrderedMapT, v |-> <<SliceV(3, 0, 1)>>],
                       [t |-> ArrayOf(2, AnyT), v |-> <<Pair(kFoo, PtrTo(innerType), PtrV(4))>>],
                       [t |-> innerType, v |-> <<Zero(innerType)>>]>>),
              ArrDocs(holderDocs(kFoo, innerDocs))),
     Scenario("maps of maps, template", SliceOf(OrderedMapT),
              HeapOf(SliceOf(OrderedMapT), SliceV(2, 0, 1),
                     <<[t |-> OrderedMapT, v |-> <<SliceV(3, 0, 1)>>],
                       [t |-> ArrayOf(2, AnyT), v |-> <<Pair(kFoo, OrderedMapT, SliceV(4, 0, 1))>>],
                       [t |-> ArrayOf(2, AnyT), v |-> <<Pair(kName, StringT, Str(<<>>))>>]>>),
              ArrDocs(holderDocs(kFoo, innerDocs)))}

\* struct { Child string `graphql:"child"` }
baseType == StructT(<<"b","a","s","e">>,
                    <<StructField(<<"C","h","i","l","d">>, GraphqlTag(kChild), StringT)>>)
\* struct { Child string `graphql:"-"` }
hiddenType == StructT(<<"h","i","d","d","e","n">>,
                      <<StructField(<<"C","h","i","l","d">>, GraphqlTag(kSkip), StringT)>>)
\* struct { Name string `graphql:"name"`; Skipped string `graphql:"-"`; base;
\*          Node *inner `graphql:"foo"`; Data inner `graphql:"data" scalar:"true"` }
selectionType ==
    StructT(<<"s","e","l","e","c","t","i","o","n">>,
            <<StructField(<<"N","a","m","e">>, GraphqlTag(kName), StringT),
              StructField(<<"S","k","i","p","p","e","d">>, GraphqlTag(kSkip), StringT),
              Embedded(<<"b","a","s","e">>, baseType),
              StructField(<<"N","o","d","e">>, GraphqlTag(kFoo), PtrTo(innerType)),
              StructField(<<"D","a","t","a">>, ScalarGraphqlTag(kData), innerType)>>)
\* struct { hidden; Name string `graphql:"name"` }
hiddenFirstType ==
    StructT(<<"f","i","r","s","t">>,
            <<Embedded(<<"h","i","d","d","e","n">>, hiddenType),
              StructField(<<"N","a","m","e">>, GraphqlTag(kName), StringT)>>)
\* struct { Name string `graphql:"name"`; hidden }
hiddenLastType ==
    StructT(<<"l","a","s","t">>,
            <<StructField(<<"N","a","m","e">>, GraphqlTag(kName), StringT),
              Embedded(<<"h","i","d","d","e","n">>, hiddenType)>>)

\* the targets whose selection set has skipped, inlined, nil and scalar fields
SelectionScenarios ==
    {QueryScenario("selection", selectionType,
                   HeapOf(selectionType, Zero(selectionType), <<>>), {JObj(<<>>)}),
     QueryScenario("hidden first", hiddenFirstType,
                   HeapOf(hiddenFirstType, Zero(hiddenFirstType), <<>>), {JObj(<<>>)}),
     QueryScenario("hidden last", hiddenLastType,
                   HeapOf(hiddenLastType, Zero(hiddenLastType), <<>>), {JObj(<<>>)})}

\* struct { Name string `graphql:"name"`; Inner *inner `graphql:"foo"` }
midType ==
    StructT(<<"m","i","d">>,
            <<StructField(<<"N","a","m","e">>, GraphqlTag(kName), StringT),
              StructField(<<"I","n","n","e","r">>, GraphqlTag(kFoo), PtrTo(innerType))>>)

\* struct { Single *mid `graphql:"single"` }, the pointer nil
NestedPointerScenarios ==
    {Scenario("nested pointers", holderOf(PtrTo(midType)),
              HeapOf(holderOf(PtrTo(midType)), Zero(holderOf(PtrTo(midType))), <<>>),
              holderDocs(kSingle, ObjDocs(<<[key |-> kName, vals |-> {JStr(sX)}],
                                            [key |-> kFoo, vals |-> innerDocs]>>)))}

Scenarios ==
    UnionScenarios \cup ListScenarios \cup WrapperScenarios \cup OrderedMapScenarios
    \cup NamedScenarios \cup ItemsScenarios \cup RawScenarios \cup UnknownKeyScenarios
    \cup StreamScenarios \cup TargetScenarios \cup PartialScenarios \cup TemplateScenarios
    \cup MapTemplateScenarios \cup SelectionScenarios
    \cup NestedPointerScenarios

\* the scenarios that are calls of Client.Query
QueryNames == {sc.name : sc \in {q \in Scenarios : q.entry = "Query"}}

(***************************************************************************)
(* The variables queryArguments is given.                                  *)
(***************************************************************************)
\* type CustomType struct { Data string }, with func (c CustomType) GetGraphQLType()
CustomType ==
    [StructT(<<"C","u","s","t","o","m","T","y","p","e">>,
             <<StructField(<<"D","a","t","a">>, NoTag, StringT)>>)
     EXCEPT !.gql = "value", !.gqlName = <<"C","u","s","t","o","m","S","c","a","l","a","r">>]
\* type CustomPointerType struct { Data string }, with func (c *CustomPointerType)
\* GetGraphQLType()
CustomPointerType ==
    [StructT(<<"C","u","s","t","o","m","P","o","i","n","t","e","r","T","y","p","e">>,
             <<StructField(<<"D","a","t","a">>, NoTag, StringT)>>)
     EXCEPT !.gql = "ptr",
            !.gqlName = <<"C","u","s","t","o","m","P","o","i","n","t","e","r",
                          "S","c","a","l","a","r">>]

\* what the pointers of the variables point to
ArgHeap ==
    <<[t |-> IntT, v |-> <<IntV(1)>>],
      [t |-> StringT, v |-> <<Str(sX)>>],
      [t |-> CustomType, v |-> <<Zero(CustomType)>>],
      [t |-> CustomPointerType, v |-> <<Zero(CustomPointerType)>>]>>

\* the values a variable has, each with its type
ArgValues ==
    {IfaceV(IntT, IntV(1)), IfaceV(PtrTo(IntT), PtrV(0)), IfaceV(PtrTo(IntT), PtrV(1)),
     IfaceV(StringT, Str(sX)), IfaceV(PtrTo(StringT), PtrV(0)), IfaceV(PtrTo(StringT), PtrV(2)),
     IfaceV(BoolT, BoolV(TRUE)),
     IfaceV(CustomType, Zero(CustomType)),
     IfaceV(PtrTo(CustomType), PtrV(0)), IfaceV(PtrTo(CustomType), PtrV(3)),
     IfaceV(CustomPointerType, Zero(CustomPointerType)),
     IfaceV(PtrTo(CustomPointerType), PtrV(0)), IfaceV(PtrTo(CustomPointerType), PtrV(4)),
     IfaceV(SliceOf(IntT), SliceV(0, 0, 0)), IfaceV(SliceOf(PtrTo(IntT)), SliceV(0, 0, 0)),
     IfaceV(PtrTo(SliceOf(IntT)), PtrV(0))}

kA == <<"a">>
kB == <<"b">>
\* the json tags of the fields of a struct of variables
jsonB == <<"b">>
jsonA == <<"a",",","o","m","i","t","e","m","p","t","y">>
jsonSkip == <<"-">>

\* map[string]any with the keys a, b or one of them; a value may be nil
MapVariables ==
    {VarsV(m) : m \in UNION {[keys -> ArgValues \cup {NilIface}] :
                             keys \in {{kA}, {kB}, {kA, kB}}}}

\* struct { First t1 `json:"b"`; Second t2 `json:"a,omitempty"`; Internal string `json:"-"` }
VariablesType(t1, t2) ==
    StructT(<<"v","a","r","i","a","b","l","e","s">>,
            <<StructField(<<"F","i","r","s","t">>, JsonTag(jsonB), t1),
              StructField(<<"S","e","c","o","n","d">>, JsonTag(jsonA), t2),
              StructField(<<"I","n","t","e","r","n","a","l">>, JsonTag(jsonSkip), StringT)>>)

VariablesValue(a1, a2) == StructV(<<a1.v, a2.v, Str(<<>>)>>)

\* [variables, heap]: a map, a struct, a pointer to a struct
ArgVariables ==
    {[variables |-> m, heap |-> ArgHeap] : m \in MapVariables}
    \cup {[variables |-> IfaceV(VariablesType(a1.t, a2.t), VariablesValue(a1, a2)),
           heap |-> ArgHeap] : a1, a2 \in ArgValues}
    \cup {[variables |-> IfaceV(PtrTo(VariablesType(a1.t, a2.t)), PtrV(Len(ArgHeap) + 1)),
           heap |-> Append(ArgHeap, [t |-> VariablesType(a1.t, a2.t),
                                     v |-> <<VariablesValue(a1, a2)>>])] :
          a1, a2 \in ArgValues}

\* [variables, heap]: values that are no map, no struct and no pointer to a struct
\* (an int, a string, a bool, a slice, pointers to these)
InvalidVariables ==
    {[variables |-> a, heap |-> ArgHeap] :
        a \in {b \in ArgValues : /\ b.t.kind # "struct"
                                 /\ ~(b.t.kind = "ptr" /\ b.t.elem.kind = "struct")}}

(***************************************************************************)
(* UnmarshalGraphQL as a state machine                                     *)
(***************************************************************************)
VARIABLES
    scenario,   \* the name of the target's scenario
    response,   \* the JSON document of the response
    data,       \* its tokens: the tokenizer's input
    target,     \* the argument v of UnmarshalGraphQL
    heap,       \* the Go values
    d,          \* the decoder: pos (tokens read), parseState, vs, currentTypename, currentKey
    tok,        \* the token decode() holds
    pc,         \* where the call is: "query", "start", "loop", "dispatch", "value", "done",
                \* "returned"
    err,        \* the error UnmarshalGraphQL returns
    scope,      \* for each open object or array, the __typename read in it (<<>>: none)
    variables,  \* the variables of the operation (nil: none)
    fields,     \* queryArguments: the variables it has yet to declare
    out,        \* the operation ConstructQuery built, the buffer of queryArguments
    errors,     \* the errors array of the response
    errs        \* the Errors of the call of Client.Query

vars == <<scenario, response, data, target, heap, d, tok, pc, err, scope, variables, fields,
          out, errors, errs>>

newDecoder ==
    [pos |-> 0, parseState |-> <<>>, vs |-> [values |-> <<>>, fragmentTypes |-> <<>>],
     currentTypename |-> <<>>, currentKey |-> <<>>]

Init ==
    \E sc \in Scenarios : \E doc \in sc.docs : \E errorsOf \in sc.errors :
    \E stream \in IF doc = NoData THEN {<<>>} ELSE Streams(sc.stream, Tokens(doc)) :
        /\ scenario = sc.name
        /\ response = doc
        /\ data = stream
        /\ target = sc.v
        /\ heap = sc.heap
        /\ d = newDecoder
        /\ tok = NoTok
        /\ pc = IF sc.entry = "Query" THEN "query" ELSE "start"
        /\ err = NoErr
        /\ scope = <<>>
        /\ variables = NilIface
        /\ fields = <<>>
        /\ out = <<>>
        /\ errors = errorsOf
        /\ errs = <<>>

\* the step of a handler that returned [d, h, err]
Return(r, next) ==
    /\ d' = r.d
    /\ heap' = r.h
    /\ err' = r.err
    /\ pc' = IF r.err # NoErr THEN "done" ELSE next

\* the step of decodeObjectKey, which returned [d, tok, err]
ReturnToken(r) ==
    /\ d' = r.d
    /\ tok' = r.tok
    /\ err' = r.err
    /\ pc' = IF r.err # NoErr THEN "done" ELSE "value"

\* what buildAndRequest returns for the query ConstructQuery built: the error of the
\* query; for a response whose first error has the code ErrJsonDecode that error alone;
\* else the data of the response, if it has any, and its errors
Requested(r) ==
    /\ out' = r.out
    /\ err' = r.err
    /\ errs' = IF r.err # NoErr THEN <<newError(ErrGraphQLEncode, r.err)>>
               ELSE IF errors # <<>> /\ errors[1].code = ErrJsonDecode
               THEN <<GqlError(errors[1].Message, ErrJsonDecode)>>
               ELSE errors
    /\ data' = IF \/ r.err # NoErr
                  \/ (errors # <<>> /\ errors[1].code = ErrJsonDecode)
                  \/ response \in {NoData, JNull}
               THEN <<>> ELSE data
    /\ pc' = IF data' = <<>> THEN "done" ELSE "start"

\* Client.do, buildAndRequest: the query is built from the target; the response
\* is what the server sends for it
BuildAndRequest ==
    /\ pc = "query"
    /\ Requested(ConstructQuery(heap, target, variables))
    /\ UNCHANGED <<errors, variables, fields, scenario, response, target, heap, d, tok, scope>>

\* the variant that takes what the target points to without a look at its kind
DecodeUnchecked ==
    /\ pc = "start"
    /\ d' = [d EXCEPT !.vs = [values |-> <<<<ElemSafe(heap, target)>>>>,
                              fragmentTypes |-> << <<>> >>]]
    /\ pc' = "loop"
    /\ err' = err
    /\ UNCHANGED <<errors, errs, variables, fields, out, scenario, response, data, target, heap,
                   tok, scope>>

\* Decode: the target must be a pointer; the one stack holds what it points to
Decode ==
    /\ pc = "start"
    /\ IF Kind(target) # "ptr"
       THEN /\ err' = ErrNonPointer
            /\ pc' = "done"
            /\ d' = d
       ELSE /\ d' = [d EXCEPT !.vs = [values |-> <<<<ElemSafe(heap, target)>>>>,
                                      fragmentTypes |-> << <<>> >>]]
            /\ pc' = "loop"
            /\ err' = err
    /\ UNCHANGED <<errors, errs, variables, fields, out, scenario, response, data, target, heap,
                   tok, scope>>

\* decode: the loop reads the next token
Token ==
    /\ pc = "loop"
    /\ vsLen(d.vs) > 0
    /\ IF d.pos >= Len(data)
       THEN /\ err' = ErrUnexpectedEnd
            /\ pc' = "done"
            /\ UNCHANGED <<d, tok>>
       ELSE /\ tok' = data[d.pos + 1]
            /\ d' = [d EXCEPT !.pos = @ + 1]
            /\ pc' = "dispatch"
            /\ err' = err
    /\ UNCHANGED <<errors, errs, variables, fields, out, scenario, response, data, target, heap,
                   scope>>

\* the variant that returns when decode has, whatever is left of the data
ReturnAtEnd ==
    /\ pc = "loop"
    /\ vsLen(d.vs) = 0
    /\ err' = NoErr
    /\ pc' = "done"
    /\ UNCHANGED <<errors, errs, variables, fields, out, scenario, response, data, target, heap,
                   d, tok, scope>>

\* UnmarshalGraphQL after decode returned nil: no token may be left
ExpectEOF ==
    /\ pc = "loop"
    /\ vsLen(d.vs) = 0
    /\ err' = IF d.pos >= Len(data) THEN NoErr
              ELSE IF data[d.pos + 1] = InvalidCharacter THEN ErrInvalidCharacter
              ELSE ErrTrailing(data[d.pos + 1])
    /\ pc' = "done"
    /\ UNCHANGED <<errors, errs, variables, fields, out, scenario, response, data, target, heap,
                   d, tok, scope>>

InObjectAtKey == pc = "dispatch" /\ state(d) = "{" /\ tok # Delim("}")
InArrayAtValue == pc = "dispatch" /\ state(d) = "[" /\ tok # Delim("]")
AtValue == pc = "value" \/ (pc = "dispatch" /\ ~InObjectAtKey /\ ~InArrayAtValue)

DecodeObjectKey ==
    /\ InObjectAtKey
    /\ IF tok.k # "string"
       THEN /\ err' = ErrNonKey
            /\ pc' = "done"
            /\ UNCHANGED <<d, tok>>
       ELSE ReturnToken(decodeObjectKey(d, heap, data, tok.s))
    /\ UNCHANGED <<errors, errs, variables, fields, out, scenario, response, data, target, heap,
                   scope>>

DecodeArrayValue ==
    /\ InArrayAtValue
    /\ Return(decodeArrayValue(d, heap), "value")
    /\ UNCHANGED <<errors, errs, variables, fields, out, scenario, response, data, target, tok,
                   scope>>

DecodeScalarValue ==
    /\ AtValue
    /\ tok.k \in {"string", "number", "bool", "null", "raw"}
    /\ Return(decodeScalarValue(d, heap, tok), "loop")
    /\ scope' = IF d.currentKey = TypenameField /\ tok.k = "string" /\ state(d) = "{"
                THEN [scope EXCEPT ![Len(scope)] = tok.s]
                ELSE scope
    /\ UNCHANGED <<errors, errs, variables, fields, out, scenario, response, data, target, tok>>

DecodeObjectStart ==
    /\ AtValue
    /\ tok = Delim("{")
    /\ Return(decodeObjectStart(d, heap), "loop")
    /\ scope' = Append(scope, <<>>)
    /\ UNCHANGED <<errors, errs, variables, fields, out, scenario, response, data, target, tok>>

DecodeArrayStart ==
    /\ AtValue
    /\ tok = Delim("[")
    /\ Return(decodeArrayStart(d, heap), "loop")
    /\ scope' = Append(scope, <<>>)
    /\ UNCHANGED <<errors, errs, variables, fields, out, scenario, response, data, target, tok>>

HandleObjectEnd ==
    /\ AtValue
    /\ tok = Delim("}")
    /\ Return(handleObjectEnd(d, heap), "loop")
    /\ scope' = Pop(scope)
    /\ UNCHANGED <<errors, errs, variables, fields, out, scenario, response, data, target, tok>>

HandleArrayEnd ==
    /\ AtValue
    /\ tok = Delim("]")
    /\ Return(handleArrayEnd(d, heap), "loop")
    /\ scope' = Pop(scope)
    /\ UNCHANGED <<errors, errs, variables, fields, out, scenario, response, data, target, tok>>

\* processResponse: the error of UnmarshalGraphQL, if it was called and failed, is
\* appended to the errors of the response
ProcessResponse ==
    /\ pc = "done"
    /\ scenario \in QueryNames
    /\ errs' = IF data # <<>> /\ err # NoErr THEN Append(errs, newError(ErrGraphQLDecode, err))
               ELSE errs
    /\ pc' = "returned"
    /\ UNCHANGED <<errors, variables, fields, out, scenario, response, data, target, heap, d, tok,
                   err, scope>>

Next ==
    \/ BuildAndRequest
    \/ ProcessResponse
    \/ Decode
    \/ Token
    \/ ExpectEOF
    \/ DecodeObjectKey
    \/ DecodeArrayValue
    \/ DecodeScalarValue
    \/ DecodeObjectStart
    \/ DecodeArrayStart
    \/ HandleObjectEnd
    \/ HandleArrayEnd

Spec == Init /\ [][Next]_vars

(***************************************************************************)
(* What the response says and what the target holds                        *)
(***************************************************************************)
\* the target: cell 1 of the heap
Root == heap[1].v[1]

HasKey(doc, key) == doc.k = "object" /\ \E i \in DOMAIN doc.m : doc.m[i][1] = key

KeyIndex(doc, key) == CHOOSE i \in DOMAIN doc.m : doc.m[i][1] = key

ValueAt(doc, key) == doc.m[KeyIndex(doc, key)][2]

\* the document has the key with a value that is a string
HasString(doc, key, s) == HasKey(doc, key) /\ ValueAt(doc, key) = JStr(s)

\* the document has the first key before the second
Precedes(doc, first, second) ==
    HasKey(doc, first) /\ HasKey(doc, second) /\ KeyIndex(doc, first) < KeyIndex(doc, second)

\* some object of the document, at any depth, has the key
RECURSIVE Mentions(_, _)
Mentions(doc, key) ==
    CASE doc.k = "object" ->
             \E i \in DOMAIN doc.m : doc.m[i][1] = key \/ Mentions(doc.m[i][2], key)
      [] doc.k = "array" -> \E i \in DOMAIN doc.e : Mentions(doc.e[i], key)
      [] OTHER -> FALSE

FieldIndex(t, name) == CHOOSE i \in DOMAIN t.fields : t.fields[i].Name = name

\* the field of a struct value of type t
Member(t, val, name) == val.e[FieldIndex(t, name)]

\* the Nonce of the fragment field frag ("A", "B") of a value of the union type t
NonceOf(t, val, frag) ==
    Member(t.fields[FieldIndex(t, frag)].Type, Member(t, val, frag), <<"N","o","n","c","e">>)

\* the type of the target
TargetType == target.t.elem

Decoded == pc = "done" /\ err = NoErr

(***************************************************************************)
(* Inline fragments and the discriminator                                  *)
(***************************************************************************)
\* C1: an object whose __typename is "B", decoded into a target with the fragments
\* "... on A" and "... on B" that both declare nonce, leaves the nonce of B set to
\* the value of the response and the nonce of A at its zero value
FragmentExclusivity ==
    (pc = "done" /\ scenario = "union"
        /\ HasString(response, TypenameField, nB) /\ HasString(response, kNonce, sX))
    => /\ err = NoErr
       /\ NonceOf(unionType, Root, nB) = Str(sX)
       /\ NonceOf(unionType, Root, nA) = Str(<<>>)

\* C2: a response that has no __typename key, decoded into the target with the two
\* fragments, sets the nonce of both fragments to the one value of the response;
\* the same holds for the child object of such a response
PermissiveFallback ==
    (pc = "done" /\ scenario \in {"union", "parent"} /\ ~Mentions(response, TypenameField))
    => /\ err = NoErr
       /\ HasString(response, kNonce, sX)
          => /\ NonceOf(TargetType, Root, nA) = Str(sX)
             /\ NonceOf(TargetType, Root, nB) = Str(sX)
       /\ (scenario = "parent" /\ HasKey(response, kChild)
             /\ HasString(ValueAt(response, kChild), kNonce, sY))
          => /\ NonceOf(unionType, Member(parentType, Root, <<"C","h","i","l","d">>), nA)
                = Str(sY)
             /\ NonceOf(unionType, Member(parentType, Root, <<"C","h","i","l","d">>), nB)
                = Str(sY)

\* C2: the response {"nonce":"x"} was decoded into both fragments
PermissiveFallbackReached ==
    /\ Decoded
    /\ scenario = "union"
    /\ response = JObj(<< <<kNonce, JStr(sX)>> >>)
    /\ NonceOf(unionType, Root, nA) = Str(sX)
    /\ NonceOf(unionType, Root, nB) = Str(sX)

\* C3: when the __typename read before the key names none of the fragments ("C"),
\* every fragment that declares the key receives its value: none is discarded
UnknownTypenameKeepsFragments ==
    (Decoded /\ scenario \in {"union", "rooted"}
        /\ HasString(response, TypenameField, nC) /\ HasString(response, kNonce, sX)
        /\ Precedes(response, TypenameField, kNonce))
    => /\ NonceOf(TargetType, Root, nA) = Str(sX)
       /\ NonceOf(TargetType, Root, nB) = Str(sX)

\* C4: inside an object the discriminator is the __typename read in that object,
\* empty while none was read: it is not the one of an enclosing or earlier object
DiscriminatorScopedToObject ==
    (pc \in {"loop", "dispatch", "value"} /\ scope # <<>> /\ state(d) = "{")
    => d.currentTypename = Top(scope)

(***************************************************************************)
(* Arrays                                                                  *)
(***************************************************************************)
\* the string an element of the response leaves in a []string
StringOf(j) == IF j.k = "string" THEN Str(j.s) ELSE Str(<<>>)

StringsOf(arr) == [i \in DOMAIN arr.e |-> StringOf(arr.e[i])]

\* the item an element of the response leaves, copied from the template
ItemOf(j) == StructV(<<IF HasKey(j, kName) THEN StringOf(ValueAt(j, kName)) ELSE Str(sInitial)>>)

\* C5: after an array was decoded into a list, the list holds the elements of the
\* array, in their order from index 0, whatever it held before: neither its initial
\* contents nor the template element are part of it
ArrayOverwritesList ==
    Decoded =>
       /\ scenario \in {"list nil", "list initial", "list two"}
          => Elements(heap, Root) = StringsOf(response)
       /\ (scenario = "list field" /\ HasKey(response, kFoo)
             /\ ValueAt(response, kFoo).k = "array")
          => Elements(heap, Root.e[1]) = StringsOf(ValueAt(response, kFoo))
       /\ scenario = "list of objects"
          => Elements(heap, Root) = [i \in DOMAIN response.e |-> ItemOf(response.e[i])]

\* C5: ["x","y"] was decoded into the list that held "init"
ArrayOverwritesListReached ==
    /\ Decoded
    /\ scenario = "list initial"
    /\ response = JArr(<<JStr(sX), JStr(sY)>>)
    /\ Elements(heap, Root) = <<Str(sX), Str(sY)>>

(***************************************************************************)
(* Wrappers                                                                *)
(***************************************************************************)
\* the selection set written for a zero value of the type
SelectionOf(t) == query(HeapOf(t, Zero(t), <<>>), Imm(PtrTo(t), PtrV(1))).out

\* struct { Single t `graphql:"wrapper"` }
renamedHolderOf(t) ==
    StructT(<<"h","o","l","d","e","r">>,
            <<StructField(<<"S","i","n","g","l","e">>, GraphqlTag(kWrapper), t)>>)

KeyHolder(i) == UnwrapToConcreteValue(heap, d.vs.values[i][Len(d.vs.values[i]) - 1])

\* the field of that record the current key names
KeyField(i) == fieldByGraphQLName(heap, KeyHolder(i), d.currentKey).val

\* the wrapped value of the field Single of the target
SingleValue ==
    IF scenario = "wrapper pointer" THEN heap[2].v[1].e[1] ELSE Root.e[1].e[1]

\* C7: when a key names a field that is a wrapper, the destination pushed for the key
\* is the field Value of the wrapper (or none, when the fragment filter discards
\* it), and the value of the key ends up in that field
WrapperRedirect ==
    /\ (pc = "value" /\ state(d) = "{")
       => \A i \in 1..vsLen(d.vs) :
             (Len(d.vs.values[i]) >= 2 /\ KeyHolder(i).valid /\ Kind(KeyHolder(i)) = "struct"
                 /\ KeyField(i).valid /\ IsWrapperType(heap, KeyField(i)))
             => \/ top(d.vs, i)
                   = FieldByName(UnwrapToConcreteValue(heap, KeyField(i)), WrapperFieldName)
                \/ /\ ~top(d.vs, i).valid
                   /\ ~FragmentMatch(fragmentType(d.vs, i), d.currentTypename)
    /\ (Decoded /\ scenario \in {"wrapper", "wrapper pointer"} /\ HasKey(response, kSingle)
          /\ HasKey(ValueAt(response, kSingle), kName))
       => SingleValue = StructV(<<StringOf(ValueAt(ValueAt(response, kSingle), kName))>>)
    /\ (Decoded /\ scenario = "wrapper of string" /\ HasKey(response, kSingle))
       => SingleValue = StringOf(ValueAt(response, kSingle))
    /\ (Decoded /\ scenario = "wrapper of list" /\ HasKey(response, kSingle))
       => Elements(heap, SingleValue) = StringsOf(ValueAt(response, kSingle))

\* C7: the key "single" was read and the destination is Single.Value of the target
WrapperRedirectReached ==
    /\ pc = "value"
    /\ state(d) = "{"
    /\ scenario = "wrapper"
    /\ d.currentKey = kSingle
    /\ IsWrapperType(heap, KeyField(1))
    /\ top(d.vs, 1) = Addr(innerType, 1, <<1, 1, 1>>)

(***************************************************************************)
(* Ordered maps                                                            *)
(***************************************************************************)
\* the pairs of the target
Pairs == Elements(heap, Root)

\* the pairs the target was given
InitialPairs == LET h == (CHOOSE sc \in Scenarios : sc.name = scenario).heap
                IN Elements(h, h[1].v[1])

PairKey(pair) == pair.e[1].v.s

\* the key of the response a pair is decoded from: its alias, else its name
ResponseKey(pair) ==
    IF ParseGraphQLTag(PairKey(pair)).Alias # <<>>
    THEN ParseGraphQLTag(PairKey(pair)).Alias
    ELSE ParseGraphQLTag(PairKey(pair)).FieldName

\* what is written for the pairs from the i-th on: each key, then the selection set
\* of its value
RECURSIVE PairsSelection(_, _)
PairsSelection(pairs, i) ==
    IF i > Len(pairs) THEN <<>>
    ELSE PairKey(pairs[i])
         \o writeQuery(heap, pairs[i].e[2].t, Imm(pairs[i].e[2].t, pairs[i].e[2].v), FALSE).out
         \o PairsSelection(pairs, i + 1)

\* the value a pair holds after it was given the value j of the response
PairValueOf(init, j) ==
    CASE init.t = StringT -> IfaceV(StringT, StringOf(j))
      [] init.t = IntT -> IfaceV(IntT, IntV(j.i))
      [] OTHER -> init

\* what the pointer of a pair points to, after the pair was given the value j
PointeeOf(j) == StructV(<<IF HasKey(j, kName) THEN StringOf(ValueAt(j, kName)) ELSE Str(<<>>)>>)

\* C8: the selection set of an ordered map lists the keys in the order of the pairs,
\* and decoding the response, whatever the order of its members, leaves the pairs
\* in that order with the value of every key of the response stored under its own
\* key
OrderedMapRoundTrip ==
    scenario \in {"ordered map", "ordered map alias", "ordered map of objects"} =>
       /\ [i \in DOMAIN Pairs |-> Pairs[i].e[1]] = [i \in DOMAIN InitialPairs |-> InitialPairs[i].e[1]]
       /\ pc # "query" => out = <<"{">> \o PairsSelection(InitialPairs, 1) \o <<"}">>
       /\ pc = "done" => err = NoErr
       /\ pc = "done" =>
             \A i \in DOMAIN Pairs :
                IF HasKey(response, ResponseKey(Pairs[i]))
                THEN /\ Pairs[i].e[2]
                        = PairValueOf(InitialPairs[i].e[2],
                                      ValueAt(response, ResponseKey(Pairs[i])))
                     /\ Pairs[i].e[2].t.kind = "ptr"
                        => heap[Pairs[i].e[2].v.to].v[1]
                           = PointeeOf(ValueAt(response, ResponseKey(Pairs[i])))
                ELSE Pairs[i].e[2] = InitialPairs[i].e[2]

\* C8: {foobar} was written for the pairs foo, bar and {"bar":1,"foo":"x"} was
\* decoded into them
OrderedMapRoundTripReached ==
    /\ Decoded
    /\ scenario = "ordered map"
    /\ out = <<"{","f","o","o","b","a","r","}">>
    /\ response = JObj(<< <<kBar, JNum(1, 0)>>, <<kFoo, JStr(sX)>> >>)
    /\ Pairs = <<Pair(kFoo, StringT, Str(sX)), Pair(kBar, IntT, IntV(1))>>

(***************************************************************************)
(* The names of the fields                                                 *)
(***************************************************************************)
\* C12: a field whose type reports its name ("wrapper") is written under that name
\* whatever its tag says: another name, an alias, or "-"; a list of such a type is
\* written under the name of its element type; a nil pointer to such a type is not
\* written at all, and its tag is not used either
SelfReportedNameWins ==
    pc # "query" =>
       /\ scenario \in {"wrapper named", "named skip", "named alias", "named list"}
          => out = <<"{","w","r","a","p","p","e","r","{","n","a","m","e","}","}">>
       /\ scenario = "named nil pointer" => out = <<"{","}">>

\* C12: {wrapper{name}} was written for the field tagged "-"
SelfReportedNameWinsReached ==
    /\ pc = "start"
    /\ scenario = "named skip"
    /\ target.t.elem.fields[1].Tag.graphql = kSkip
    /\ out = <<"{","w","r","a","p","p","e","r","{","n","a","m","e","}","}">>

\* C13: the selection set of a list field holds the selection set of its element
\* type once, whether the list holds no element, one or more
ListTemplateInvariance ==
    (pc # "query" /\ scenario = "items")
    => out = <<"{","s","i","n","g","l","e","{","n","a","m","e","}","}">>

\* C13: {single{name}} was written for a list of MaxItems elements
ListTemplateInvarianceReached ==
    /\ pc = "start"
    /\ scenario = "items"
    /\ Root.e[1].len = MaxItems
    /\ out = <<"{","s","i","n","g","l","e","{","n","a","m","e","}","}">>

(***************************************************************************)
(* Raw capture                                                             *)
(***************************************************************************)
\* the destination of stack i for the current key captures the value: its type is
\* json.RawMessage or its field is tagged scalar:"true"
Captures(i) ==
    /\ Len(d.vs.values[i]) >= 2
    /\ KeyHolder(i).valid
    /\ Kind(KeyHolder(i)) = "struct"
    /\ KeyField(i).valid
    /\ \/ KeyField(i).t = RawMessageT
       \/ fieldByGraphQLName(heap, KeyHolder(i), d.currentKey).taggedAsScalar

\* C14: when the destination of some stack captures the value of a key, the token
\* handed on is the whole value of the key as one raw span, object and array
\* included, read up to its end; the parse state stays that of the enclosing object,
\* and the span ends up in the destination
RawCapture ==
    /\ (pc = "value" /\ state(d) = "{" /\ \E i \in 1..vsLen(d.vs) : Captures(i))
       => /\ tok.k = "raw"
          /\ Len(d.parseState) = 1
             => /\ tok = RawTok(Tokens(ValueAt(response, d.currentKey)))
                /\ SubSeq(data, d.pos - Len(tok.toks) + 1, d.pos) = tok.toks
    /\ scenario \in {"raw", "raw union"} => Len(d.parseState) <= 1
    /\ (Decoded /\ scenario = "raw" /\ HasKey(response, kData))
       => Root.e[1] = RawV(Tokens(ValueAt(response, kData)))
    /\ (Decoded /\ scenario = "raw" /\ HasKey(response, kPtr))
       => /\ Root.e[2].to # 0
          /\ heap[Root.e[2].to].v[1] = RawV(Tokens(ValueAt(response, kPtr)))

\* C14: the object of the key data was read as one span because the fragment A tags
\* its field as scalar, though the fragment B does not
RawCaptureReached ==
    /\ pc = "value"
    /\ scenario = "raw union"
    /\ d.currentKey = kData
    /\ Captures(2)
    /\ ~Captures(3)
    /\ tok = RawTok(Tokens(JObj(<< <<kName, JStr(sY)>> >>)))
    /\ d.parseState = <<"{">>

(***************************************************************************)
(* Errors                                                                  *)
(***************************************************************************)
\* the number of stacks while the object of the target is decoded: the target and
\* its two fragments, or the target alone
PlacesOf(name) == IF name = "unknown" THEN 3 ELSE 1

\* C15: a key for which no stack has a destination ends the decoding with the error
\* that names the key and the number of stacks; it is not skipped, and the error is
\* given for no other key
UnknownKeyFails ==
    /\ (pc = "done" /\ scenario \in {"unknown", "unknown plain"})
       => err = IF HasKey(response, kFoo) THEN ErrNoField(kFoo, PlacesOf(scenario))
                ELSE NoErr
    /\ (pc = "done" /\ err.code = ErrNoField(<<>>, 0).code)
       => /\ err = ErrNoField(d.currentKey, vsLen(d.vs))
          /\ \A i \in 1..vsLen(d.vs) : ~top(d.vs, i).valid
          /\ \A i \in 1..vsLen(d.vs) :
                 Kind(KeyHolder(i)) = "struct" => ~KeyField(i).valid

\* C15: {"nonce":"x","foo":"y"} into the target with two fragments failed at foo,
\* after nonce was decoded
UnknownKeyFailsReached ==
    /\ pc = "done"
    /\ scenario = "unknown"
    /\ response = JObj(<< <<kNonce, JStr(sX)>>, <<kFoo, JStr(sY)>> >>)
    /\ err = ErrNoField(kFoo, 3)
    /\ NonceOf(unionType, Root, nA) = Str(sX)

StreamNames == {"stream", "stream raw", "stream map"}

\* the data goes on after the top-level value
HasTrailing == Len(data) > Len(Tokens(response))
\* the data ends before the top-level value does
Truncated == Len(data) < Len(Tokens(response))

\* C16: when the data goes on after the top-level value, the value is consumed and
\* no more, and the call ends with the error that names the token that follows it
\* (with the tokenizer's error, if what follows is no token); when nothing follows,
\* the call ends without error; and the error is given nowhere else
TrailingTokenFails ==
    /\ (pc = "done" /\ scenario \in StreamNames /\ HasTrailing)
       => /\ d.pos = Len(Tokens(response))
          /\ vsLen(d.vs) = 0
          /\ err = IF data[d.pos + 1] = InvalidCharacter THEN ErrInvalidCharacter
                   ELSE ErrTrailing(data[d.pos + 1])
    /\ (pc = "done" /\ scenario \in StreamNames /\ data = Tokens(response)) => err = NoErr
    /\ (pc = "done" /\ err.code = ErrTrailing(NoTok).code)
       => /\ HasTrailing
          /\ d.pos = Len(Tokens(response))
          /\ err.tok = data[d.pos + 1]

\* C16: {"foo":"x"}{"foo":"y"} into an ordered map ended with the error for the
\* second {, after foo was given "x"
TrailingTokenFailsReached ==
    /\ pc = "done"
    /\ scenario = "stream map"
    /\ response = JObj(<< <<kFoo, JStr(sX)>> >>)
    /\ data = Tokens(response) \o <<Delim("{"), Str(kFoo), Str(sY), Delim("}")>>
    /\ err = ErrTrailing(Delim("{"))
    /\ Pairs = <<Pair(kFoo, StringT, Str(sX))>>

\* C17: when the data ends before the top-level value does, the call ends with the
\* error "unexpected end of JSON input", or with "unexpected EOF" when the data
\* ends within a captured value
TruncatedIsUnexpectedEnd ==
    (pc = "done" /\ scenario \in StreamNames /\ Truncated)
    => err \in {ErrUnexpectedEnd, ErrSyntax}

\* C17, what holds of the code: truncated data never ends without error, and the
\* error is "unexpected end of JSON input" unless the data ends where the value of
\* a captured key is read
TruncatedNeverSucceeds ==
    (pc = "done" /\ scenario \in StreamNames /\ Truncated)
    => /\ err # NoErr
       /\ d.pos = Len(data)
       /\ err \in {ErrSyntax, ErrEOF}
          => /\ state(d) = "{"
             /\ \E i \in 1..vsLen(d.vs) : Captures(i)
       /\ err \notin {ErrSyntax, ErrEOF} => err = ErrUnexpectedEnd

\* C17: the data {"data" ended the call with io.EOF
TruncatedAtCapturedKey ==
    /\ pc = "done"
    /\ scenario = "stream raw"
    /\ data = <<Delim("{"), Str(kData)>>
    /\ err = ErrEOF

\* C17: the data {"foo":["x" ended the call with "unexpected end of JSON input"
TruncatedInArray ==
    /\ pc = "done"
    /\ scenario = "stream"
    /\ data = <<Delim("{"), Str(kFoo), Delim("["), Str(sX)>>
    /\ err = ErrUnexpectedEnd

\* the decoder is about to open an array
AtArrayOpen == AtValue /\ tok = Delim("[")
\* the list the array is decoded into on stack i
ListAt(i) == UnwrapToConcreteValue(heap, top(d.vs, i))
\* the stacks whose list holds more than one element
LongTemplates ==
    {i \in 1..vsLen(d.vs) : Kind(ListAt(i)) = "slice" /\ LenOf(heap, ListAt(i)) > 1}

\* C18: opening an array when a list it is decoded into holds more than one
\* element ends the call with the error that gives the limit of one and the
\* length of that list; with lists of no or one element the error is not given
TemplateSizeFails ==
    [][AtArrayOpen
       => IF LongTemplates # {}
          THEN /\ pc' = "done"
               /\ \E i \in LongTemplates :
                      err' = ErrTemplateSize(1, LenOf(heap, ListAt(i)))
          ELSE err'.code # ErrTemplateSize(0, 0).code]_vars

\* C18: an array decoded into a list of two strings ended with "got 2", the list
\* as it was
TemplateSizeFailsReached ==
    /\ pc = "done"
    /\ scenario = "list two"
    /\ response = JArr(<<JStr(sX)>>)
    /\ err = ErrTemplateSize(1, 2)
    /\ Elements(heap, Root) = <<Str(sInitial), Str(sInitial)>>

\* C19: the call with a nil pointer as its target ends with an error, before a
\* token of the data is read
NilPointerFails ==
    (scenario = "nil pointer" /\ pc = "done") => (err # NoErr /\ d.pos = 0)

\* C19, what holds of the code: the nil pointer passes the test of Decode, the one
\* stack holds the invalid value, nothing is written, and the call ends without
\* error for a scalar, {} and [], with the error of the unknown key for an object
\* with a member and with the error of the missing list for an array with an
\* element
NilPointerIsSkipped ==
    scenario = "nil pointer"
    => /\ heap = HeapOf(innerType, Zero(innerType), <<>>)
       /\ pc \notin {"start", "done"} => \A i \in 1..vsLen(d.vs) : ~top(d.vs, i).valid
       /\ pc = "done"
          => err = IF response \in {JStr(sX), JNull, JArr(<<>>), JObj(<<>>)} THEN NoErr
                   ELSE IF response = JArr(<<JStr(sX)>>) THEN ErrNoSlice(1)
                   ELSE ErrNoField(kName, 1)

\* C19: {} decoded into (*inner)(nil) ended without error
NilPointerSucceeded ==
    /\ scenario = "nil pointer"
    /\ pc = "done"
    /\ response = JObj(<<>>)
    /\ err = NoErr
    /\ d.pos = 2

\* C20 as stated: the call with a target that is no pointer panics
NonPointerPanics ==
    (scenario \in {"non-pointer", "nil"} /\ pc = "done") => err = Panic

\* C20: the call with a target that is no pointer (a record passed by value, nil)
\* returns the error "cannot decode into non-pointer" at once: no token is read,
\* there is no stack, nothing is written and nothing panics; the error is given
\* to no call whose target is a pointer
NonPointerIsAnError ==
    /\ (scenario \in {"non-pointer", "nil"} /\ pc # "start")
       => /\ pc = "done"
          /\ err = ErrNonPointer
          /\ d = newDecoder
          /\ tok = NoTok
          /\ heap = HeapOf(innerType, Zero(innerType), <<>>)
    /\ err = ErrNonPointer => Kind(target) # "ptr"

\* C20: {"name":"x"} and an inner passed by value ended with the error
NonPointerIsAnErrorReached ==
    /\ scenario = "non-pointer"
    /\ pc = "done"
    /\ response = JObj(<< <<kName, JStr(sX)>> >>)
    /\ target = Imm(innerType, Zero(innerType))
    /\ err = ErrNonPointer

(***************************************************************************)
(* The place of the discriminator among the keys                           *)
(***************************************************************************)
\* the response names fragment T and has the nonce "x"
Names(T) == HasString(response, TypenameField, T) /\ HasString(response, kNonce, sX)

\* the target holds the nonce in fragment T and in no other
OnlyIn(T) ==
    /\ err = NoErr
    /\ \A F \in {nA, nB} :
          NonceOf(unionType, Root, F) = IF F = T THEN Str(sX) ELSE Str(<<>>)

\* C23, __typename first: the fragment the object names holds the nonce, the other
\* fragment holds nothing
TypenameFirstDecides ==
    \A T \in {nA, nB} :
        (pc = "done" /\ scenario = "union" /\ Names(T)
         /\ Precedes(response, TypenameField, kNonce))
        => OnlyIn(T)

\* C23: with __typename as the last key of the object the target is populated as
\* it is with __typename as the first key
TypenamePlaceIsIrrelevant ==
    \A T \in {nA, nB} :
        (pc = "done" /\ scenario = "union" /\ Names(T)
         /\ Precedes(response, kNonce, TypenameField))
        => OnlyIn(T)

\* C23: {"__typename":"A","nonce":"x"} left the nonce in A alone
TypenameFirstReached ==
    /\ pc = "done"
    /\ scenario = "union"
    /\ response = JObj(<< <<TypenameField, JStr(nA)>>, <<kNonce, JStr(sX)>> >>)
    /\ OnlyIn(nA)

\* C23: {"nonce":"x","__typename":"A"} left the nonce in A and in B
TypenameLastReached ==
    /\ pc = "done"
    /\ scenario = "union"
    /\ response = JObj(<< <<kNonce, JStr(sX)>>, <<TypenameField, JStr(nA)>> >>)
    /\ NonceOf(unionType, Root, nA) = Str(sX)
    /\ NonceOf(unionType, Root, nB) = Str(sX)

(***************************************************************************)
(* The elements of a list                                                  *)
(***************************************************************************)
\* the record that element i of the list is, or points to
RecordOf(e) == IF e.k = "ptr" THEN heap[e.to].v[1] ELSE e
Record(i) == RecordOf(Elements(heap, Root)[i])

\* element i of the list holds the name of the i-th object of the array, for
\* every object that has one
ElementsAsStreamed ==
    /\ Len(Elements(heap, Root)) = Len(response.e)
    /\ \A i \in DOMAIN response.e :
          HasKey(response.e[i], kName)
          => Record(i).e[1] = StringOf(ValueAt(response.e[i], kName))

\* C24: after an array of objects was decoded into a list, element i holds the
\* values of the i-th object, with no template, with a template that is a record,
\* a nil pointer or a pointer to a record
ElementsKeepTheirValues ==
    (Decoded /\ scenario \in {"pointers, no template", "pointers, nil template",
                              "pointers, template", "records, template"})
    => ElementsAsStreamed

\* C24, what holds of the code: the same without the template that is a pointer
\* to a record; with that template every element is the pointer of the template,
\* so all elements and the template are one record
ElementsKeepTheirValuesUnlessShared ==
    /\ (Decoded /\ scenario \in {"pointers, no template", "pointers, nil template",
                                 "records, template"})
       => ElementsAsStreamed
    /\ (Decoded /\ scenario = "pointers, template")
       => \A i \in DOMAIN Elements(heap, Root) : Elements(heap, Root)[i] = PtrV(3)

\* C24: [{"name":"x"},{"name":"y"}] into a list of records with a template left
\* x and y
ElementsKeepTheirValuesReached ==
    /\ Decoded
    /\ scenario = "records, template"
    /\ response = JArr(<<JObj(<< <<kName, JStr(sX)>> >>), JObj(<< <<kName, JStr(sY)>> >>)>>)
    /\ Elements(heap, Root) = <<StructV(<<Str(sX)>>), StructV(<<Str(sY)>>)>>

\* C24: the same array into a list of pointers with a template that points to a
\* record left y and y
ElementsShared ==
    /\ Decoded
    /\ scenario = "pointers, template"
    /\ response = JArr(<<JObj(<< <<kName, JStr(sX)>> >>), JObj(<< <<kName, JStr(sY)>> >>)>>)
    /\ Record(1) = StructV(<<Str(sY)>>)
    /\ Record(2) = StructV(<<Str(sY)>>)

(***************************************************************************)
(* Client.Query                                                            *)
(***************************************************************************)
\* the node the target holds for field i is nil, or is what the value j says
NodeIs(i, j) ==
    IF j = JNull THEN Root.e[i].to = 0
    ELSE /\ Root.e[i].to # 0
         /\ heap[Root.e[i].to].v[1] = PointeeOf(j)

\* the target holds what the data of the response says
Populated ==
    /\ HasKey(response, kFoo) => NodeIs(1, ValueAt(response, kFoo))
    /\ HasKey(response, kChild) => NodeIs(2, ValueAt(response, kChild))

\* C22: when the response has data with a member and errors, Client.Query returns
\* the errors of the response, all of them and in their order, and the target holds
\* the data (when the data itself cannot be decoded, the error of that is returned
\* after those of the response)
PartialDataWithErrors ==
    (pc = "returned" /\ scenario = "partial" /\ response.k = "object" /\ response.m # <<>>
     /\ errors # <<>>)
    => /\ SubSeq(errs, 1, Len(errors)) = errors
       /\ IF err = NoErr THEN errs = errors /\ Populated
          ELSE errs = Append(errors, newError(ErrGraphQLDecode, err))

\* C22, what holds of the code: the same, for the responses whose first error does
\* not carry the code ErrJsonDecode; for those that do, the first error alone is
\* returned and the target is left as it was
PartialDataUnlessReserved ==
    (pc = "returned" /\ scenario = "partial" /\ response.k = "object" /\ response.m # <<>>
     /\ errors # <<>>)
    => IF errors[1].code = ErrJsonDecode
       THEN /\ errs = <<errors[1]>>
            /\ heap = HeapOf(nodesType, Zero(nodesType), <<>>)
       ELSE /\ SubSeq(errs, 1, Len(errors)) = errors
            /\ IF err = NoErr THEN errs = errors /\ Populated
               ELSE errs = Append(errors, newError(ErrGraphQLDecode, err))

\* C22: {"foo":{"name":"x"},"child":null} with one error: the error was returned,
\* Node1 holds x and Node2 is nil
PartialDataWithErrorsReached ==
    /\ pc = "returned"
    /\ scenario = "partial"
    /\ response = JObj(<< <<kFoo, JObj(<< <<kName, JStr(sX)>> >>)>>, <<kChild, JNull>> >>)
    /\ errors = <<notFound>>
    /\ errs = <<notFound>>
    /\ Root.e[1].to # 0
    /\ heap[Root.e[1].to].v[1] = StructV(<<Str(sX)>>)
    /\ Root.e[2].to = 0

\* C22: the same data with an error of the code ErrJsonDecode: the target is empty
PartialDataDropped ==
    /\ pc = "returned"
    /\ scenario = "partial"
    /\ response = JObj(<< <<kFoo, JObj(<< <<kName, JStr(sX)>> >>)>>, <<kChild, JNull>> >>)
    /\ errors = <<reserved>>
    /\ Root.e[1].to = 0

(***************************************************************************)
(* The frontier                                                            *)
(***************************************************************************)
Depth(i) == Len(d.vs.values[i])

\* C25 as stated: all stacks of the frontier have the same depth
EqualDepth ==
    \A i, j \in 1..vsLen(d.vs) : Depth(i) = Depth(j)

\* the stacks that were in the frontier before the step and are in it after
Survivors == 1..(IF vsLen(d.vs) < vsLen(d'.vs) THEN vsLen(d.vs) ELSE vsLen(d'.vs))

\* C25: every step of the decoder moves all stacks of the frontier together: the
\* stacks that stay grow or shrink by the same number of values, so two stacks
\* keep the difference in depth that they had when the later one was added; a
\* stack is added with one value, whatever the depth of the older stacks, which
\* are never shorter than it; no stack of the frontier is empty, for the stacks
\* that leave it are those of one value, at the pop that takes that value
StacksMoveTogether ==
    [][/\ \A i \in 1..vsLen(d'.vs) : Len(d'.vs.values[i]) > 0
       /\ \A i, j \in Survivors :
             Len(d'.vs.values[i]) - Depth(i) = Len(d'.vs.values[j]) - Depth(j)
       /\ \A i, j \in 1..vsLen(d'.vs) :
             i < j => Len(d'.vs.values[i]) >= Len(d'.vs.values[j])
       /\ \A i \in (vsLen(d.vs) + 1)..vsLen(d'.vs) : Len(d'.vs.values[i]) = 1
       /\ \A i \in (vsLen(d'.vs) + 1)..vsLen(d.vs) :
             /\ Depth(i) = 1
             /\ \A j \in Survivors : Len(d'.vs.values[j]) = Depth(j) - 1]_vars

\* C25: inside the object of the key "parent" the root stack holds two values and
\* the stack of a fragment of that object holds one
StacksMoveTogetherReached ==
    /\ scenario = "parent"
    /\ pc = "loop"
    /\ err = NoErr
    /\ d.parseState = <<"{", "{">>
    /\ vsLen(d.vs) >= 2
    /\ Depth(1) = 2
    /\ Depth(vsLen(d.vs)) = 1

RECURSIVE TypeAlong(_, _)
\* the type reached from type t along the fields and elements of a path
TypeAlong(t, path) ==
    IF path = <<>> THEN t
    ELSE IF t.kind = "struct" THEN TypeAlong(t.fields[Head(path)].Type, Tail(path))
    ELSE TypeAlong(t.elem, Tail(path))

\* the type of the record that holds the value b as a field
HolderType(b) == TypeAlong(heap[b.loc].t, SubSeq(b.path, 2, Len(b.path) - 1))

\* the fragment type name that the declaration of the field b gives: that of its
\* tag "... on T", none for an embedded record
DeclaredFragment(b) ==
    extractFragmentTypename(HolderType(b).fields[b.path[Len(b.path)]].Tag.graphql)

\* C30: the frontier has as many fragment type names as stacks, and the name at
\* the index of a stack is the one the stack was added with: none for the root
\* stack, and for a stack added for a field of a record the type name of the
\* field's fragment tag (none for an embedded record), after every step of the
\* decoder, whatever was pushed and popped since
FrontierInLockstep ==
    /\ Len(d.vs.fragmentTypes) = Len(d.vs.values)
    /\ \A i \in 1..vsLen(d.vs) :
          IF Len(d.vs.values[i][1].path) < 2
          THEN i = 1 /\ d.vs.fragmentTypes[i] = <<>>
          ELSE /\ i > 1
               /\ HolderType(d.vs.values[i][1]).kind = "struct"
               /\ d.vs.fragmentTypes[i] = DeclaredFragment(d.vs.values[i][1])

\* C30: the object under the key "child" was closed, its stacks left the frontier,
\* and the root stack and the stacks of the fragments A and B of the parent are
\* left with their names
FrontierInLockstepReached ==
    /\ scenario = "parent"
    /\ pc = "loop"
    /\ tok = Delim("}")
    /\ d.parseState = <<"{">>
    /\ d.vs.fragmentTypes = <<<<>>, nA, nB>>
    /\ [i \in 1..3 |-> d.vs.values[i][1].path] = <<<<1>>, <<1, 3>>, <<1, 4>>>>

RECURSIVE Opens(_)
\* the brackets that the tokens open and do not close, outermost first
Opens(toks) ==
    IF toks = <<>> THEN <<>>
    ELSE IF toks[Len(toks)] \in {Delim("{"), Delim("[")}
    THEN Append(Opens(Pop(toks)), toks[Len(toks)].c)
    ELSE IF toks[Len(toks)] \in {Delim("}"), Delim("]")}
    THEN Pop(Opens(Pop(toks)))
    ELSE Opens(Pop(toks))

\* the tokens read so far
Consumed == SubSeq(data, 1, d.pos)

\* C26: whenever the loop of decode is about to test the frontier, the markers of
\* the parse state are the brackets that the tokens read so far leave open, the
\* frontier is empty exactly when those tokens are one complete value, and while a
\* bracket is open the first stack is the one of the root; a call that succeeds
\* has read one complete value
FrontierEmptyAtValueEnd ==
    /\ pc = "loop"
       => /\ d.parseState = Opens(Consumed)
          /\ vsLen(d.vs) = 0 <=> (d.pos >= 1 /\ Opens(Consumed) = <<>>)
          /\ Opens(Consumed) # <<>>
             => /\ vsLen(d.vs) >= 1
                /\ d.vs.values[1][1] = ElemSafe(heap, target)
    /\ (pc \in {"done", "returned"} /\ err = NoErr /\ data # <<>>)
       => /\ d.pos >= 1
          /\ Opens(Consumed) = <<>>
          /\ d.parseState = <<>>
          /\ vsLen(d.vs) = 0

\* C26: after the tokens {"child":{ two brackets are open and the root stack is in
\* the frontier
FrontierEmptyAtValueEndReached ==
    /\ scenario = "parent"
    /\ pc = "loop"
    /\ Consumed = <<Delim("{"), Str(kChild), Delim("{")>>
    /\ d.parseState = <<"{", "{">>
    /\ vsLen(d.vs) >= 1

(***************************************************************************)
(* The elements of a list of ordered maps                                  *)
(***************************************************************************)
\* the heap the call was given
InitialHeap == (CHOOSE sc \in Scenarios : sc.name = scenario).heap

\* the pairs of element i of a list of ordered maps
PairsOf(i) == Elements(heap, Elements(heap, Root)[i])

\* the value the pair of element i holds after the i-th object was decoded into a
\* copy of the template pair: that of the object's key, else that of the template
NameIn(i) ==
    IF HasKey(response.e[i], kName) THEN StringOf(ValueAt(response.e[i], kName))
    ELSE Str(<<>>)

\* the pairs of the template are what the caller put there
TemplateUntouched == \A c \in {3, 4} : c <= Len(InitialHeap) => heap[c] = InitialHeap[c]

\* C27, for pairs that hold their value: after an array of objects was decoded
\* into a list of ordered maps with a template, element i is one pair that holds
\* the name of the i-th object, whatever the later objects held, and the pair of
\* the template is as it was
MapElementsIndependent ==
    (Decoded /\ scenario = "maps, template")
    => /\ Len(Elements(heap, Root)) = Len(response.e)
       /\ \A i \in DOMAIN response.e : PairsOf(i) = <<Pair(kName, StringT, NameIn(i))>>
       /\ TemplateUntouched
       /\ \A i, j \in DOMAIN response.e : i # j
             => Elements(heap, Root)[i].arr # Elements(heap, Root)[j].arr

\* C27: a value decoded into one element of a list of ordered maps is not seen in
\* another element nor in the template, for a pair that holds a string, for a
\* pair that holds a pointer to a record and for a pair that holds an ordered map
MapElementsNeverShare ==
    /\ MapElementsIndependent
    /\ (Decoded /\ scenario = "maps of pointers, template")
       => /\ TemplateUntouched
          /\ \A i \in DOMAIN response.e :
                HasKey(response.e[i], kFoo)
                => heap[PairsOf(i)[1].e[2].v.to].v[1]
                   = PointeeOf(ValueAt(response.e[i], kFoo))
    /\ (Decoded /\ scenario = "maps of maps, template")
       => /\ TemplateUntouched
          /\ \A i \in DOMAIN response.e :
                (HasKey(response.e[i], kFoo) /\ HasKey(ValueAt(response.e[i], kFoo), kName))
                => Elements(heap, PairsOf(i)[1].e[2].v)
                   = <<Pair(kName, StringT,
                            StringOf(ValueAt(ValueAt(response.e[i], kFoo), kName)))>>

\* C27: [{"foo":{"name":"x"}},{"foo":{"name":"y"}}] left two maps whose pairs
\* hold the map of the template, which holds name: y
NestedMapsShared ==
    /\ Decoded
    /\ scenario = "maps of maps, template"
    /\ response = JArr(<<JObj(<< <<kFoo, JObj(<< <<kName, JStr(sX)>> >>)>> >>),
                         JObj(<< <<kFoo, JObj(<< <<kName, JStr(sY)>> >>)>> >>)>>)
    /\ PairsOf(1) = <<Pair(kFoo, OrderedMapT, SliceV(4, 0, 1))>>
    /\ PairsOf(2) = <<Pair(kFoo, OrderedMapT, SliceV(4, 0, 1))>>
    /\ heap[4].v = <<Pair(kName, StringT, Str(sY))>>

\* C27: [{"name":"x"},{"name":"y"}] left a list of two maps, of the pair name: x
\* and of the pair name: y
MapElementsIndependentReached ==
    /\ Decoded
    /\ scenario = "maps, template"
    /\ response = JArr(<<JObj(<< <<kName, JStr(sX)>> >>), JObj(<< <<kName, JStr(sY)>> >>)>>)
    /\ PairsOf(1) = <<Pair(kName, StringT, Str(sX))>>
    /\ PairsOf(2) = <<Pair(kName, StringT, Str(sY))>>

\* C27: [{"foo":{"name":"x"}},{"foo":{"name":"y"}}] left two maps whose pairs
\* point to the record of the template, which holds y
MapElementsShared ==
    /\ Decoded
    /\ scenario = "maps of pointers, template"
    /\ response = JArr(<<JObj(<< <<kFoo, JObj(<< <<kName, JStr(sX)>> >>)>> >>),
                         JObj(<< <<kFoo, JObj(<< <<kName, JStr(sY)>> >>)>> >>)>>)
    /\ PairsOf(1) = <<Pair(kFoo, PtrTo(innerType), PtrV(4))>>
    /\ PairsOf(2) = <<Pair(kFoo, PtrTo(innerType), PtrV(4))>>
    /\ heap[4].v[1] = StructV(<<Str(sY)>>)

(***************************************************************************)
(* The siblings of a selection set                                         *)
(***************************************************************************)
Punctuation == {"{", "}", ","}

RECURSIVE Chunks(_, _)
\* the names of a selection set, in order: the runs of s between brackets and
\* commas, cur being the run that the characters before s left open
Chunks(s, cur) ==
    IF s = <<>> THEN (IF cur = <<>> THEN <<>> ELSE <<cur>>)
    ELSE IF Head(s) \in Punctuation
    THEN (IF cur = <<>> THEN <<>> ELSE <<cur>>) \o Chunks(Tail(s), <<>>)
    ELSE Chunks(Tail(s), Append(cur, Head(s)))

\* no comma after {, before }, next to a comma, or at an end
NoStrayComma(s) ==
    \A i \in DOMAIN s :
        s[i] = "," => /\ i > 1 /\ s[i - 1] \notin {"{", ","}
                      /\ i < Len(s) /\ s[i + 1] \notin {"}", ","}

\* the names of the fields that the target of a scenario selects, each once, in
\* the order of their declaration
SelectedNames ==
    CASE scenario = "selection" -> <<kName, kChild, kFoo, kName, kData>>
      [] scenario \in {"hidden first", "hidden last"} -> <<kName>>
      [] scenario = "ordered map" -> <<kFoo, kBar>>
      [] scenario = "ordered map alias" -> <<kAliased, kName>>
      [] scenario = "ordered map of objects" -> <<kFoo, kName, kChild, kName>>
      [] scenario = "plain" -> <<kSingle, kName>>

WriterNames == {"selection", "hidden first", "hidden last", "ordered map",
                "ordered map alias", "ordered map of objects", "plain"}

\* C28: in the selection set written for a record or an ordered map every name is
\* set apart from the next (the names read back from the text are the names of the
\* fields, one by one) and no comma stands after {, before } or next to a comma
SiblingsDelimited ==
    (scenario \in WriterNames /\ pc # "query")
    => /\ err = NoErr
       /\ Chunks(out, <<>>) = SelectedNames
       /\ NoStrayComma(out)

\* C28, what holds of the code: the same for a record in which every inlined
\* record writes a field, and for an ordered map whose pairs hold records; the
\* keys of pairs that hold scalars are written one after the other with nothing
\* between, and an inlined record that writes nothing still gets its comma
SiblingsDelimitedInRecords ==
    /\ (scenario \in {"selection", "ordered map of objects", "plain"} /\ pc # "query")
       => /\ err = NoErr
          /\ Chunks(out, <<>>) = SelectedNames
          /\ NoStrayComma(out)
    /\ (scenario = "ordered map" /\ pc # "query")
       => out = <<"{">> \o kFoo \o kBar \o <<"}">>
    /\ (scenario = "hidden first" /\ pc # "query") => out = <<"{", ",">> \o kName \o <<"}">>
    /\ (scenario = "hidden last" /\ pc # "query") => out = <<"{">> \o kName \o <<",", "}">>

\* C28: {name,child,foo{name},data} was written for the record with a skipped
\* field, an inlined record, a nil pointer and a scalar leaf
SiblingsDelimitedReached ==
    /\ scenario = "selection"
    /\ pc = "done"
    /\ out = <<"{">> \o kName \o <<",">> \o kChild \o <<",">> \o kFoo \o <<"{">> \o kName
             \o <<"}", ",">> \o kData \o <<"}">>

\* C28: {foobar} was written for the pairs foo and bar
SiblingsRunTogether ==
    /\ scenario = "ordered map"
    /\ pc = "done"
    /\ Chunks(out, <<>>) = <<kFoo \o kBar>>


(***************************************************************************)
(* Nil pointers                                                            *)
(***************************************************************************)
\* an object under the key was opened: the key and then { were read, and the {
\* is not the token that decode holds and has yet to handle
Visited(key) ==
    \E n \in 1..(d.pos - 1) :
        /\ data[n] = JStr(key)
        /\ data[n + 1] = Delim("{")
        /\ n + 1 = d.pos => pc \notin {"dispatch", "value"}

\* the record that the field Single of the root points to
Mid == heap[Root.e[1].to].v[1]

\* C29: a nil pointer is given a new value when the object of its own key is
\* opened and not before: the pointers of a record stay nil while their key has
\* not come with an object, also after the pointer to the record was allocated,
\* and a decode in which the key never appeared leaves the pointer nil
PointersAllocatedOnVisit ==
    /\ scenario = "partial"
       => /\ Root.e[1].to # 0 <=> Visited(kFoo)
          /\ Root.e[2].to # 0 <=> Visited(kChild)
    /\ scenario = "nested pointers"
       => /\ Root.e[1].to # 0 <=> Visited(kSingle)
          /\ Root.e[1].to # 0 => (Mid.e[2].to # 0 <=> Visited(kFoo))
          /\ (Decoded /\ ~Mentions(response, kFoo) /\ HasKey(response, kSingle))
             => /\ Root.e[1].to # 0
                /\ Mid.e[2].to = 0
                /\ Len(heap) = 2

\* C29: {"single":{"name":"x"}} left Single pointing to a record named x whose
\* pointer Inner is nil
PointersAllocatedOnVisitReached ==
    /\ scenario = "nested pointers"
    /\ Decoded
    /\ response = JObj(<< <<kSingle, JObj(<< <<kName, JStr(sX)>> >>)>> >>)
    /\ Root.e[1] = PtrV(2)
    /\ Mid = StructV(<<Str(sX), PtrV(0)>>)


(***************************************************************************)
(* queryArguments as a state machine                                       *)
(***************************************************************************)
InitArgs ==
    \E a \in ArgVariables \cup InvalidVariables :
        /\ scenario = IF a \in InvalidVariables THEN "invalid variables" ELSE "arguments"
        /\ response = JNull
        /\ data = <<>>
        /\ target = Invalid
        /\ heap = a.heap
        /\ d = newDecoder
        /\ tok = NoTok
        /\ pc = "arguments"
        /\ err = NoErr
        /\ scope = <<>>
        /\ variables = a.variables
        /\ fields = <<>>
        /\ out = <<>>
        /\ errors = <<>>
        /\ errs = <<>>

\* the step of collectStructFieldsForArguments, which returned [fields, err]
ReturnFields(collected) ==
    /\ fields' = collected.fields
    /\ err' = collected.err
    /\ pc' = IF collected.err # NoErr THEN "done" ELSE "write"

\* queryArguments, writeArgumentsFromMap: the keys of the map are sorted
SortKeys ==
    /\ pc = "arguments"
    /\ variables.k = "vars"
    /\ \E order \in KeyOrders(variables.m) : fields' = SortByName(KeysIn(variables.m, order))
    /\ pc' = "write"
    /\ UNCHANGED <<errors, errs, variables, out, err, scenario, response, data, target, heap, d,
                   tok, scope>>

\* queryArguments, collectStructFieldsForArguments
CollectStructFieldsForArguments ==
    /\ pc = "arguments"
    /\ variables.k # "vars"
    /\ ReturnFields(collectStructFieldsForArguments(heap, variables))
    /\ UNCHANGED <<errors, errs, variables, out, scenario, response, data, target, heap, d, tok,
                   scope>>

\* one turn of the loop of writeArgumentsFromMap, writeArgumentsFromFields
WriteArgument ==
    /\ pc = "write"
    /\ fields # <<>>
    /\ IF Head(fields).fieldType = NoType
       THEN /\ err' = Panic
            /\ pc' = "done"
            /\ UNCHANGED <<fields, out>>
       ELSE /\ out' = out \o writeArgument(heap, Head(fields))
            /\ fields' = Tail(fields)
            /\ UNCHANGED <<pc, err>>
    /\ UNCHANGED <<errors, errs, variables, scenario, response, data, target, heap, d, tok, scope>>

\* queryArguments returns buf.String()
ReturnArguments ==
    /\ pc = "write"
    /\ fields = <<>>
    /\ pc' = "done"
    /\ UNCHANGED <<errors, errs, variables, fields, out, err, scenario, response, data, target,
                   heap, d, tok,
                   scope>>

NextArgs ==
    \/ SortKeys
    \/ CollectStructFieldsForArguments
    \/ WriteArgument
    \/ ReturnArguments

SpecArgs == InitArgs /\ [][NextArgs]_vars

(***************************************************************************)
(* The declarations of the variables                                       *)
(***************************************************************************)
\* the variables as declared, in the order of their names: [name, t, v]
DeclaredOfMap(m) ==
    [i \in 1..Cardinality(DOMAIN m) |->
        IF i = 1 /\ kA \in DOMAIN m
        THEN [name |-> kA, t |-> m[kA].t, v |-> m[kA].v]
        ELSE [name |-> kB, t |-> m[kB].t, v |-> m[kB].v]]

DeclaredOfStruct(t, val) ==
    <<[name |-> kA, t |-> t.fields[2].Type, v |-> val.e[2]],
      [name |-> kB, t |-> t.fields[1].Type, v |-> val.e[1]]>>

Declared ==
    IF variables.k = "vars" THEN DeclaredOfMap(variables.m)
    ELSE IF variables.t.kind = "ptr"
    THEN DeclaredOfStruct(variables.t.elem, heap[variables.v.to].v[1])
    ELSE DeclaredOfStruct(variables.t, variables.v)

\* the index of the first "$" of s after its first element, Len(s) + 1 if none
NextDollar(s) ==
    IF \E n \in 2..Len(s) : s[n] = "$"
    THEN CHOOSE n \in 2..Len(s) : s[n] = "$" /\ \A k \in 2..(n - 1) : s[k] # "$"
    ELSE Len(s) + 1

\* the declarations of "$a:Int!$b:String": <<"a:Int!", "b:String">>
RECURSIVE Declarations(_)
Declarations(s) ==
    IF s = <<>> THEN <<>>
    ELSE <<SubSeq(s, 2, NextDollar(s) - 1)>> \o Declarations(SubSeq(s, NextDollar(s), Len(s)))

Required(decl) == decl # <<>> /\ decl[Len(decl)] = "!"

Written == pc = "done" /\ err = NoErr

\* the type written for a variable declared with a pointer type
OptionalTypeOf(t) ==
    CASE t = PtrTo(IntT) -> <<"I","n","t">>
      [] t = PtrTo(StringT) -> <<"S","t","r","i","n","g">>
      [] t = PtrTo(CustomType) -> <<"C","u","s","t","o","m","S","c","a","l","a","r">>
      [] t = PtrTo(CustomPointerType) ->
             <<"C","u","s","t","o","m","P","o","i","n","t","e","r","S","c","a","l","a","r">>
      [] t = PtrTo(SliceOf(IntT)) -> <<"[","I","n","t","!","]">>

\* C9, as the code has it: a variable declared with a pointer type is written without
\* "!" and with the same type whether its value is nil or not, also when the type
\* reports its wire name; the same type declared by value is written with "!"
PointerVariableIsOptional ==
    Written =>
       /\ Len(Declarations(out)) = Len(Declared)
       /\ \A i \in DOMAIN Declared :
             /\ Declared[i].t.kind = "ptr"
                => Declarations(out)[i]
                   = Declared[i].name \o <<":">> \o OptionalTypeOf(Declared[i].t)
             /\ Declared[i].t \in {IntT, StringT, CustomType, SliceOf(IntT)}
                => Declarations(out)[i]
                   = Declared[i].name \o <<":">> \o OptionalTypeOf(PtrTo(Declared[i].t))
                      \o <<"!">>

\* C9: $a:Int$b:Int was written for a nil *int and a non-nil *int
PointerVariableIsOptionalReached ==
    /\ Written
    /\ variables = VarsV((kA :> IfaceV(PtrTo(IntT), PtrV(0))) @@ (kB :> IfaceV(PtrTo(IntT), PtrV(1))))
    /\ out = <<"$","a",":","I","n","t","$","b",":","I","n","t">>

\* C9, as the spec has it: a variable declared with a pointer type that does not
\* report its wire name is written with "!" exactly when its value is not nil
NonNilPointerIsRequired ==
    Written =>
       \A i \in DOMAIN Declared :
          (Declared[i].t.kind = "ptr" /\ ~ImplementsGraphQLType(Declared[i].t))
          => (Required(Declarations(out)[i]) <=> Declared[i].v # PtrV(0))

\* C10: the "!" of a declaration is decided by the declared type of the variable and
\* not by its value: a pointer type is written without it, nil or not, and every
\* other type is written with it
BangFromDeclaredType ==
    Written =>
       /\ Len(Declarations(out)) = Len(Declared)
       /\ \A i \in DOMAIN Declared :
             /\ SubSeq(Declarations(out)[i], 1, 2) = Declared[i].name \o <<":">>
             /\ Required(Declarations(out)[i]) <=> Declared[i].t.kind # "ptr"

\* C10: $a:Int$b:Int! was written for a non-nil *int and an int
BangFromDeclaredTypeReached ==
    /\ Written
    /\ variables = VarsV((kA :> IfaceV(PtrTo(IntT), PtrV(1))) @@ (kB :> IfaceV(IntT, IntV(1))))
    /\ out = <<"$","a",":","I","n","t","$","b",":","I","n","t","!">>

\* the name of a declaration: what precedes its ":"
NameOf(decl) == SubSeq(decl, 1, Index(decl, ":") - 1)

\* the names the variables declare: the keys of a map, the names of the json tags of
\* a struct
DeclaredNames ==
    IF variables.k = "vars" THEN DOMAIN variables.m
    ELSE {JsonName(f.Tag.json) :
          f \in {g \in Range((IF variables.t.kind = "ptr" THEN variables.t.elem
                              ELSE variables.t).fields) :
                    g.Tag.json \notin {<<>>, <<"-">>}}}

\* C11: the declarations are written in ascending order of the names of the
\* variables, one for each name, whatever the order in which the map gives its keys
\* and the struct declares its fields
DeclarationsSorted ==
    /\ pc = "write" =>
          \A i, j \in DOMAIN fields : i < j => StrLess(fields[i].jsonName, fields[j].jsonName)
    /\ Written =>
          /\ {NameOf(decl) : decl \in Range(Declarations(out))} = DeclaredNames
          /\ Len(Declarations(out)) = Cardinality(DeclaredNames)
          /\ \A i, j \in DOMAIN Declarations(out) :
                i < j => StrLess(NameOf(Declarations(out)[i]), NameOf(Declarations(out)[j]))

\* C11: $a:String!$b:Int! was written for the struct that declares b before a
DeclarationsSortedReached ==
    /\ Written
    /\ variables = IfaceV(VariablesType(IntT, StringT), StructV(<<IntV(1), Str(sX), Str(<<>>)>>))
    /\ out = <<"$","a",":","S","t","r","i","n","g","!","$","b",":","I","n","t","!">>

\* C21: queryArguments given variables that are no map, no struct and no pointer
\* to a struct panics: it writes nothing and returns nothing, and ConstructQuery
\* with these variables panics too; with variables queryArguments wrote the
\* declarations of, ConstructQuery returns without error
InvalidVariablesPanic ==
    /\ (scenario = "invalid variables" /\ pc # "arguments")
       => /\ pc = "done"
          /\ err = Panic
          /\ out = <<>>
    /\ scenario = "invalid variables"
       => ConstructQuery(heap, Imm(innerType, Zero(innerType)), variables).err = Panic
    /\ (scenario = "arguments" /\ Written)
       => ConstructQuery(heap, Imm(innerType, Zero(innerType)), variables).err = NoErr

\* C21: queryArguments("x") panicked
InvalidVariablesPanicReached ==
    /\ scenario = "invalid variables"
    /\ variables = IfaceV(StringT, Str(sX))
    /\ pc = "done"
    /\ err = Panic

====
